---------------------------- MODULE Spec2Model ----------------------------
(***************************************************************************)
(* The position and risk manager of the trading bot (src/main.py,          *)
(* class TradingBot) as a state machine.                                   *)
(*                                                                         *)
(* Money, prices and share counts are Python floats in the source; here    *)
(* they are exact rationals <<n, d>> (d > 0, lowest terms), so that        *)
(* amount / price, the volume-weighted average and the percentage          *)
(* thresholds are computed the way the code computes them, without the     *)
(* rounding of binary floating point.                                      *)
(***************************************************************************)
EXTENDS Integers, Sequences, FiniteSets, TLC

VARIABLES cash, positions, trailing_stops, daily_pl, starting_day_value,
          ledger, call, pc

vars == <<cash, positions, trailing_stops, daily_pl, starting_day_value,
          ledger, call, pc>>

---------------------------------------------------------------------------
(* Rational arithmetic standing for the float arithmetic of the source.    *)

RECURSIVE Gcd(_, _)
Gcd(a, b) == IF b = 0 THEN a ELSE Gcd(b, a % b)

Abs(n) == IF n < 0 THEN 0 - n ELSE n

Q(n, d) ==
    LET g == Gcd(Abs(n), Abs(d))
        s == IF d < 0 THEN 0 - 1 ELSE 1
    IN  << (s * n) \div g, (s * d) \div g >>

QInt(n) == << n, 1 >>

QAdd(x, y) == Q(x[1] * y[2] + y[1] * x[2], x[2] * y[2])
QSub(x, y) == Q(x[1] * y[2] - y[1] * x[2], x[2] * y[2])
QMul(x, y) == Q(x[1] * y[1], x[2] * y[2])
QDiv(x, y) == Q(x[1] * y[2], x[2] * y[1])
QNeg(x)    == << 0 - x[1], x[2] >>
QLe(x, y)  == x[1] * y[2] <= y[1] * x[2]
QLt(x, y)  == x[1] * y[2] <  y[1] * x[2]
QMin(x, y) == IF QLe(x, y) THEN x ELSE y
QMax(x, y) == IF QLe(x, y) THEN y ELSE x

---------------------------------------------------------------------------
(* Trading parameters (src/main.py:32-36).                                 *)

STARTING_CAPITAL == 100
MAX_RISK_PER_TRADE == 50
STOP_LOSS_PERCENT == Q(5, 100)
TRAILING_STOP_PERCENT == Q(10, 100)
MAX_DAILY_LOSS_PERCENT == Q(15, 100)

Strategies == {"sentiment", "breakout", "mean_reversion"}

(* The strategies STRATEGIES enables (src/main.py:46-50).                  *)
Enabled == {"sentiment", "breakout"}

(* What get_current_price returns when both the trade and the quote lookup *)
(* fail.                                                                   *)
None == << >>

---------------------------------------------------------------------------
(* Bounds of the model and the inputs the environment draws from.          *)

MaxLedger == 2

Symbols == {"AAPL", "NVDA"}
Prices  == {QInt(10), QInt(20)}
Amounts == {QInt(50), QInt(60)}
ShareInputs == {QInt(2), QInt(5)}
SellTags == {"sentiment"}
Readings == {None, QInt(10), QInt(19), QInt(20)}

---------------------------------------------------------------------------
(* The bot's fields as one record, so that an operation is a function from *)
(* the state before to the state after and operations compose the way the  *)
(* code calls them.  positions is an insertion-ordered dict: a sequence of *)
(* records keyed by their symbol field.                                    *)

Self == [cash |-> cash, positions |-> positions,
         trailing_stops |-> trailing_stops, daily_pl |-> daily_pl,
         starting_day_value |-> starting_day_value, ledger |-> ledger]

HasPosition(ps, symbol) == \E i \in 1..Len(ps) : ps[i].symbol = symbol

IndexOf(ps, symbol) == CHOOSE i \in 1..Len(ps) : ps[i].symbol = symbol

PositionOf(ps, symbol) == ps[IndexOf(ps, symbol)]

SetPosition(ps, symbol, shares, entry_price, strategy) ==
    LET rec == [symbol |-> symbol, shares |-> shares,
                entry_price |-> entry_price, strategy |-> strategy]
    IN  IF HasPosition(ps, symbol)
        THEN [ps EXCEPT ![IndexOf(ps, symbol)] = rec]
        ELSE Append(ps, rec)

DelPosition(ps, symbol) == SelectSeq(ps, LAMBDA r : r.symbol # symbol)

DelKey(f, k) == [x \in (DOMAIN f) \ {k} |-> f[x]]

SetKey(f, k, v) == [x \in (DOMAIN f) \cup {k} |-> IF x = k THEN v ELSE f[x]]

(* One row of trades.csv; the timestamp column is wall-clock time and is   *)
(* left out.  action is <<"BUY">> or <<"SELL", reason>>.                   *)
log_trade(s, symbol, action, price, shares, pnl, strategy) ==
    [s EXCEPT !.ledger = Append(@,
        [symbol |-> symbol, action |-> action, price |-> price,
         shares |-> shares, pnl |-> pnl, strategy |-> strategy,
         cash_remaining |-> s.cash])]

(* What an operation hands back: the state after, the return value and the *)
(* set of symbols it called api.submit_order for.                          *)
Outcome(s, ret, sent) == [state |-> s, ret |-> ret, sent |-> sent]

---------------------------------------------------------------------------
(* can_make_trade and execute_buy.                                         *)

DailyLossLimit(s) == QNeg(QMul(MAX_DAILY_LOSS_PERCENT, s.starting_day_value))

(* Mutant: the per-trade risk limit is not checked.                         *)
can_make_trade_without_risk_limit(s, risk_amount) ==
    IF QLe(s.daily_pl, DailyLossLimit(s)) THEN FALSE
    ELSE TRUE

can_make_trade(s, risk_amount) ==
    IF QLt(QInt(MAX_RISK_PER_TRADE), risk_amount) THEN FALSE
    ELSE IF QLe(s.daily_pl, DailyLossLimit(s)) THEN FALSE
    ELSE TRUE

InitialTrailingStop(price) == QMul(price, QSub(QInt(1), TRAILING_STOP_PERCENT))

(* Mutant: the plain mean of the two prices.                               *)
SimpleAverage(current_shares, current_price, shares, price) ==
    QDiv(QAdd(current_price, price), QInt(2))

(* avg_price of a buy merged into an open position.                        *)
AveragePrice(current_shares, current_price, shares, price) ==
    QDiv(QAdd(QMul(current_shares, current_price), QMul(shares, price)),
         QAdd(current_shares, shares))

BuyBookkeeping(s, symbol, price, amount, strategy) ==
    LET shares == QDiv(amount, price)
        paid   == [s EXCEPT !.cash = QSub(@, amount)]
        held   ==
            IF ~HasPosition(s.positions, symbol)
            THEN [paid EXCEPT !.positions =
                     SetPosition(@, symbol, shares, price, strategy)]
            ELSE LET current_shares == PositionOf(s.positions, symbol).shares
                     current_price  == PositionOf(s.positions, symbol).entry_price
                     total_shares   == QAdd(current_shares, shares)
                     avg_price      ==
                         AveragePrice(current_shares, current_price,
                                      shares, price)
                 IN  [paid EXCEPT !.positions =
                         SetPosition(@, symbol, total_shares, avg_price, strategy)]
        stopped ==
            IF strategy = "breakout"
            THEN [held EXCEPT !.trailing_stops =
                     SetKey(@, symbol, InitialTrailingStop(price))]
            ELSE held
    IN  log_trade(stopped, symbol, <<"BUY">>, price, shares, QInt(0), strategy)

(* The average of a merge divides by total_shares: when the position and   *)
(* the buy both have no shares it raises ZeroDivisionError, after the cash *)
(* was taken and before the position is written; the except clause of     *)
(* execute_buy then returns False.                                         *)
MergeRaises(s, symbol, price, amount) ==
    /\ HasPosition(s.positions, symbol)
    /\ QAdd(PositionOf(s.positions, symbol).shares, QDiv(amount, price)) = QInt(0)

(* Mutant: any amount is taken to be covered.                              *)
AlwaysFunded(s, amount) == TRUE

(* The cash check: not (amount > self.cash).                               *)
HasFunds(s, amount) == ~QLt(s.cash, amount)

(* Mutant: the cash is taken before the order is submitted.                *)
execute_buy_paying_first(s, symbol, price, amount, strategy, ok) ==
    IF ~can_make_trade(s, amount) THEN Outcome(s, FALSE, {})
    ELSE IF ~HasFunds(s, amount) THEN Outcome(s, FALSE, {})
    ELSE IF ~ok
    THEN Outcome([s EXCEPT !.cash = QSub(@, amount)], FALSE, {symbol})
    ELSE IF MergeRaises(s, symbol, price, amount)
    THEN Outcome([s EXCEPT !.cash = QSub(@, amount)], FALSE, {symbol})
    ELSE Outcome(BuyBookkeeping(s, symbol, price, amount, strategy), TRUE,
                 {symbol})

execute_buy(s, symbol, price, amount, strategy, ok) ==
    IF ~can_make_trade(s, amount) THEN Outcome(s, FALSE, {})
    ELSE IF ~HasFunds(s, amount) THEN Outcome(s, FALSE, {})
    ELSE IF ~ok THEN Outcome(s, FALSE, {symbol})
    ELSE IF MergeRaises(s, symbol, price, amount)
    THEN Outcome([s EXCEPT !.cash = QSub(@, amount)], FALSE, {symbol})
    ELSE Outcome(BuyBookkeeping(s, symbol, price, amount, strategy), TRUE,
                 {symbol})

---------------------------------------------------------------------------
(* execute_sell.  The order goes to the broker before the position is      *)
(* looked up; shares, strategy and reason are whatever the caller passes.  *)

(* Mutant: the position is deleted and its trailing stop stays.            *)
ClosePositionKeepingStop(s, symbol) ==
    [s EXCEPT !.positions = DelPosition(@, symbol)]

(* del self.positions[symbol], and its trailing stop if there is one.      *)
ClosePosition(s, symbol) ==
    [s EXCEPT !.positions = DelPosition(@, symbol),
              !.trailing_stops = IF symbol \in DOMAIN @ THEN DelKey(@, symbol)
                                 ELSE @]

(* Mutant: a partial sell also drops the trailing stop.                    *)
ReducePositionDroppingStop(s, symbol, shares) ==
    LET held == PositionOf(s.positions, symbol)
    IN  [s EXCEPT !.positions =
                      SetPosition(@, symbol, QSub(held.shares, shares),
                                  held.entry_price, held.strategy),
                  !.trailing_stops = IF symbol \in DOMAIN @ THEN DelKey(@, symbol)
                                     ELSE @]

(* self.positions[symbol]['shares'] -= shares                              *)
ReducePosition(s, symbol, shares) ==
    LET held == PositionOf(s.positions, symbol)
    IN  [s EXCEPT !.positions =
                      SetPosition(@, symbol, QSub(held.shares, shares),
                                  held.entry_price, held.strategy)]

(* Mutant: a position is deleted only when fewer shares are held than sold. *)
SellBookkeepingKeepingSoldOut(s, symbol, price, shares, strategy, reason) ==
    LET held        == PositionOf(s.positions, symbol)
        entry_price == held.entry_price
        pnl         == QMul(QSub(price, entry_price), shares)
        credited    == [s EXCEPT !.daily_pl = QAdd(@, pnl),
                                 !.cash = QAdd(@, QMul(shares, price))]
        booked      ==
            IF QLt(held.shares, shares)
            THEN ClosePosition(credited, symbol)
            ELSE ReducePosition(credited, symbol, shares)
    IN  log_trade(booked, symbol, <<"SELL", reason>>, price, shares, pnl, strategy)

SellBookkeeping(s, symbol, price, shares, strategy, reason) ==
    LET held        == PositionOf(s.positions, symbol)
        entry_price == held.entry_price
        pnl         == QMul(QSub(price, entry_price), shares)
        credited    == [s EXCEPT !.daily_pl = QAdd(@, pnl),
                                 !.cash = QAdd(@, QMul(shares, price))]
        booked      ==
            IF QLe(held.shares, shares)
            THEN ClosePosition(credited, symbol)
            ELSE ReducePosition(credited, symbol, shares)
    IN  log_trade(booked, symbol, <<"SELL", reason>>, price, shares, pnl, strategy)

execute_sell(s, symbol, price, shares, strategy, reason, ok) ==
    IF ~ok THEN Outcome(s, FALSE, {symbol})
    ELSE IF HasPosition(s.positions, symbol)
    THEN Outcome(SellBookkeeping(s, symbol, price, shares, strategy, reason),
                 TRUE, {symbol})
    ELSE Outcome(s, FALSE, {symbol})

---------------------------------------------------------------------------
(* The maintenance cycles.  Each walks list(self.positions.items()), a     *)
(* snapshot taken before the loop, and reads one price per held symbol:    *)
(* readings maps each held symbol to what get_current_price returns for    *)
(* it, failing is the set of symbols whose order the broker refuses.       *)

(* Mutant: the stop-loss level is taken at the trailing percentage.        *)
StopLossLevelAtTrailing(entry_price) ==
    QMul(entry_price, QSub(QInt(1), TRAILING_STOP_PERCENT))

StopLossLevel(entry_price) == QMul(entry_price, QSub(QInt(1), STOP_LOSS_PERCENT))

(* Mutant: the stop is multiplied where it should be divided.              *)
RatchetLevelMultiplied(stop) == QMul(stop, QSub(QInt(1), TRAILING_STOP_PERCENT))

(* Mutant: the stop is rewritten whenever the price is above it.           *)
RatchetAtStop(stop) == stop

(* The price above which the stop is raised: stop / (1 - TRAILING_STOP_PERCENT). *)
RatchetLevel(stop) == QDiv(stop, QSub(QInt(1), TRAILING_STOP_PERCENT))

StopLossVisit(o, position, current_price, ok) ==
    LET s        == o.state
        symbol   == position.symbol
        strategy == position.strategy
    IN  IF current_price = None THEN o
        ELSE IF QLe(current_price, StopLossLevel(position.entry_price))
        THEN LET r == execute_sell(s, symbol, current_price, position.shares,
                                   strategy, "stop_loss", ok)
             IN  Outcome(r.state, FALSE, o.sent \cup r.sent)
        ELSE IF strategy = "breakout" /\ symbol \in DOMAIN s.trailing_stops
        THEN IF QLe(current_price, s.trailing_stops[symbol])
             THEN LET r == execute_sell(s, symbol, current_price, position.shares,
                                        strategy, "trailing_stop", ok)
                  IN  Outcome(r.state, FALSE, o.sent \cup r.sent)
             ELSE IF QLt(RatchetLevel(s.trailing_stops[symbol]), current_price)
             THEN Outcome([s EXCEPT !.trailing_stops[symbol] =
                              InitialTrailingStop(current_price)], FALSE, o.sent)
             ELSE o
        ELSE o

(* Mutant: every tag is held to the sentiment target.                      *)
TakeProfitMultipleOfSentiment(strategy) == Q(15, 10)

TakeProfitMultiple(strategy) ==
    IF strategy = "sentiment" THEN Q(15, 10)
    ELSE IF strategy = "breakout" THEN Q(13, 10)
    ELSE Q(11, 10)

TakeProfitVisit(o, position, current_price, ok) ==
    LET s        == o.state
        strategy == position.strategy
    IN  IF current_price = None THEN o
        ELSE IF /\ strategy \in {"sentiment", "breakout", "mean_reversion"}
                /\ QLe(QMul(position.entry_price, TakeProfitMultiple(strategy)),
                       current_price)
        THEN LET r == execute_sell(s, position.symbol, current_price,
                                   position.shares, strategy, "take_profit", ok)
             IN  Outcome(r.state, FALSE, o.sent \cup r.sent)
        ELSE o

(* Mutant: the sell is made without its reason and takes the default one.  *)
MarketCloseVisitDefaultReason(o, position, current_price, ok) ==
    IF current_price = None THEN o
    ELSE LET r == execute_sell(o.state, position.symbol, current_price,
                               position.shares, position.strategy,
                               "target_reached", ok)
         IN  Outcome(r.state, FALSE, o.sent \cup r.sent)

MarketCloseVisit(o, position, current_price, ok) ==
    IF current_price = None THEN o
    ELSE LET r == execute_sell(o.state, position.symbol, current_price,
                               position.shares, position.strategy,
                               "market_close", ok)
         IN  Outcome(r.state, FALSE, o.sent \cup r.sent)

(* Mutant: the walk ends at the first symbol without a price.              *)
RECURSIVE WalkStoppingAtAbsent(_, _, _, _, _)
WalkStoppingAtAbsent(kind, o, snapshot, readings, failing) ==
    IF snapshot = << >> THEN o
    ELSE LET position      == Head(snapshot)
             current_price == readings[position.symbol]
             ok            == position.symbol \notin failing
             after ==
                 IF kind = "stop" THEN StopLossVisit(o, position, current_price, ok)
                 ELSE IF kind = "profit"
                 THEN TakeProfitVisit(o, position, current_price, ok)
                 ELSE MarketCloseVisit(o, position, current_price, ok)
         IN  IF current_price = None THEN o
             ELSE WalkStoppingAtAbsent(kind, after, Tail(snapshot), readings,
                                       failing)

RECURSIVE Walk(_, _, _, _, _)
Walk(kind, o, snapshot, readings, failing) ==
    IF snapshot = << >> THEN o
    ELSE LET position      == Head(snapshot)
             current_price == readings[position.symbol]
             ok            == position.symbol \notin failing
             after ==
                 IF kind = "stop" THEN StopLossVisit(o, position, current_price, ok)
                 ELSE IF kind = "profit"
                 THEN TakeProfitVisit(o, position, current_price, ok)
                 ELSE MarketCloseVisit(o, position, current_price, ok)
         IN  Walk(kind, after, Tail(snapshot), readings, failing)

check_stop_losses(s, readings, failing) ==
    Walk("stop", Outcome(s, FALSE, {}), s.positions, readings, failing)

check_take_profits(s, readings, failing) ==
    Walk("profit", Outcome(s, FALSE, {}), s.positions, readings, failing)

close_all_positions_at_market_close(s, readings, failing) ==
    Walk("close", Outcome(s, FALSE, {}), s.positions, readings, failing)

---------------------------------------------------------------------------
(* get_account_value and reset_daily_stats.  shares * None raises          *)
(* TypeError, so a reading of None makes get_account_value raise.          *)

RECURSIVE PositionsValue(_, _)
PositionsValue(ps, readings) ==
    IF ps = << >> THEN QInt(0)
    ELSE QAdd(QMul(Head(ps).shares, readings[Head(ps).symbol]),
              PositionsValue(Tail(ps), readings))

AccountValueRaises(s, readings) ==
    \E i \in 1..Len(s.positions) : readings[s.positions[i].symbol] = None

get_account_value(s, readings) ==
    QAdd(s.cash, PositionsValue(s.positions, readings))

reset_daily_stats(s, readings) ==
    LET zeroed == [s EXCEPT !.daily_pl = QInt(0)]
    IN  IF AccountValueRaises(s, readings) THEN zeroed
        ELSE [zeroed EXCEPT !.starting_day_value = get_account_value(s, readings)]

---------------------------------------------------------------------------
(* State after construction (TradingBot.__init__).                         *)

Init ==
    /\ cash = QInt(STARTING_CAPITAL)
    /\ positions = << >>
    /\ trailing_stops = << >>
    /\ daily_pl = QInt(0)
    /\ starting_day_value = QInt(STARTING_CAPITAL)
    /\ ledger = << >>
    /\ call = [op |-> "init"]
    /\ pc = "idle"

Install(s) ==
    /\ cash' = s.cash
    /\ positions' = s.positions
    /\ trailing_stops' = s.trailing_stops
    /\ daily_pl' = s.daily_pl
    /\ starting_day_value' = s.starting_day_value
    /\ ledger' = s.ledger

Held == {positions[i].symbol : i \in 1..Len(positions)}

State == <<cash, positions, trailing_stops, daily_pl, starting_day_value,
           ledger>>

---------------------------------------------------------------------------
(* One action per operation of the risk manager, called in any order.      *)

Buy(symbol, price, amount, strategy, ok) ==
    LET r == execute_buy(Self, symbol, price, amount, strategy, ok)
    IN  /\ (ok \/ r.sent # {})
        /\ Install(r.state)
        /\ call' = [op |-> "execute_buy", ret |-> r.ret, sent |-> r.sent]

Sell(symbol, price, shares, strategy, ok) ==
    LET r == execute_sell(Self, symbol, price, shares, strategy,
                          "target_reached", ok)
    IN  /\ Install(r.state)
        /\ call' = [op |-> "execute_sell", ret |-> r.ret, sent |-> r.sent]

StopLosses(readings, failing) ==
    LET r == check_stop_losses(Self, readings, failing)
    IN  /\ Install(r.state)
        /\ call' = [op |-> "check_stop_losses", sent |-> r.sent]

TakeProfits(readings, failing) ==
    LET r == check_take_profits(Self, readings, failing)
    IN  /\ Install(r.state)
        /\ call' = [op |-> "check_take_profits", sent |-> r.sent]

MarketClose(readings, failing) ==
    LET r == close_all_positions_at_market_close(Self, readings, failing)
    IN  /\ Install(r.state)
        /\ call' = [op |-> "close_all_positions_at_market_close",
                    sent |-> r.sent]

ResetDay(readings) ==
    /\ Install(reset_daily_stats(Self, readings))
    /\ call' = [op |-> "reset_daily_stats",
                raised |-> AccountValueRaises(Self, readings)]

ExecuteBuy ==
    /\ \E symbol \in Symbols, price \in Prices, amount \in Amounts,
          strategy \in Enabled, ok \in BOOLEAN :
          Buy(symbol, price, amount, strategy, ok)
    /\ Len(ledger') <= MaxLedger
    /\ UNCHANGED pc

ExecuteSell ==
    /\ \E symbol \in Symbols, price \in Prices, shares \in ShareInputs,
          strategy \in SellTags, ok \in BOOLEAN :
          Sell(symbol, price, shares, strategy, ok)
    /\ Len(ledger') <= MaxLedger
    /\ UNCHANGED pc

CheckStopLosses ==
    /\ \E readings \in [Held -> Readings] :
          \E failing \in SUBSET check_stop_losses(Self, readings, {}).sent :
             StopLosses(readings, failing)
    /\ Len(ledger') <= MaxLedger
    /\ UNCHANGED pc

CheckTakeProfits ==
    /\ \E readings \in [Held -> Readings] :
          \E failing \in SUBSET check_take_profits(Self, readings, {}).sent :
             TakeProfits(readings, failing)
    /\ Len(ledger') <= MaxLedger
    /\ UNCHANGED pc

CloseAllPositionsAtMarketClose ==
    /\ \E readings \in [Held -> Readings] :
          \E failing \in SUBSET
                close_all_positions_at_market_close(Self, readings, {}).sent :
             MarketClose(readings, failing)
    /\ Len(ledger') <= MaxLedger
    /\ UNCHANGED pc

Next ==
    \/ ExecuteBuy
    \/ ExecuteSell
    \/ CheckStopLosses
    \/ CheckTakeProfits
    \/ CloseAllPositionsAtMarketClose

Spec == Init /\ [][Next]_vars

---------------------------------------------------------------------------
(* One trading day in depth: the same operations and reset_daily_stats,    *)
(* with AAPL bought at 20 and NVDA at 10, every order filled and whole     *)
(* positions bought and sold, so that longer runs of trades fit the bound. *)

MaxDayLedger == 4

DayQuotes   == {<<"AAPL", QInt(20)>>, <<"NVDA", QInt(10)>>}
DayAmounts  == {QInt(50)}
DayShares   == {QInt(5)}
DayTags     == {"sentiment"}
DayReadings == {QInt(10), QInt(20)}

DayBuy ==
    /\ \E quote \in DayQuotes, amount \in DayAmounts, strategy \in DayTags :
          Buy(quote[1], quote[2], amount, strategy, TRUE)
    /\ Len(ledger') <= MaxDayLedger
    /\ UNCHANGED pc

DaySell ==
    /\ \E symbol \in Symbols, price \in Prices, shares \in DayShares,
          strategy \in DayTags :
          Sell(symbol, price, shares, strategy, TRUE)
    /\ Len(ledger') <= MaxDayLedger
    /\ UNCHANGED pc

DayStopLosses ==
    /\ \E readings \in [Held -> DayReadings] : StopLosses(readings, {})
    /\ Len(ledger') <= MaxDayLedger
    /\ UNCHANGED pc

DayTakeProfits ==
    /\ \E readings \in [Held -> DayReadings] : TakeProfits(readings, {})
    /\ Len(ledger') <= MaxDayLedger
    /\ UNCHANGED pc

DayMarketClose ==
    /\ \E readings \in [Held -> DayReadings] : MarketClose(readings, {})
    /\ Len(ledger') <= MaxDayLedger
    /\ UNCHANGED pc

DayReset ==
    /\ \E readings \in [Held -> DayReadings] : ResetDay(readings)
    /\ Len(ledger') <= MaxDayLedger
    /\ UNCHANGED pc

NextDay ==
    \/ DayBuy
    \/ DayStopLosses
    \/ DayTakeProfits
    \/ DayMarketClose
    \/ DayReset
    \/ DaySell

SpecDay == Init /\ [][NextDay]_vars

---------------------------------------------------------------------------
(* main and run_trading_day.  pc is the place of the control loop inside   *)
(* run_trading_day: "clock" before api.get_clock(), then one place before  *)
(* each call it makes, and "exited" once main has returned.  An exception  *)
(* that leaves run_trading_day is caught by main's except clause, which    *)
(* logs it and lets main return.                                           *)

MaxLoopLedger == 2

Watchlist == <<"AAPL", "NVDA">>

LoopQuotes == {None, QInt(10), QInt(20)}

(* min(max(20, cash * 0.2), min(50, cash * 0.5))                           *)
RiskAmount(s) ==
    QMin(QMax(QInt(20), QMul(s.cash, Q(2, 10))),
         QMin(QInt(50), QMul(s.cash, Q(5, 10))))

(* run_sentiment_strategy and run_breakout_strategy: for each symbol of    *)
(* the watchlist whose signal fires (quotes has the symbol), read a price  *)
(* and, if there is one, buy for the risk amount.                          *)
RECURSIVE RunStrategy(_, _, _, _, _)
RunStrategy(o, symbols, strategy, quotes, failing) ==
    IF symbols = << >> THEN o
    ELSE LET symbol == Head(symbols)
             after ==
                 IF symbol \in DOMAIN quotes /\ quotes[symbol] # None
                 THEN LET r == execute_buy(o.state, symbol, quotes[symbol],
                                           RiskAmount(o.state), strategy,
                                           symbol \notin failing)
                      IN  Outcome(r.state, FALSE, o.sent \cup r.sent)
                 ELSE o
         IN  RunStrategy(after, Tail(symbols), strategy, quotes, failing)

run_sentiment_strategy(s, quotes, failing) ==
    RunStrategy(Outcome(s, FALSE, {}), Watchlist, "sentiment", quotes, failing)

run_breakout_strategy(s, quotes, failing) ==
    RunStrategy(Outcome(s, FALSE, {}), Watchlist, "breakout", quotes, failing)

InitMain ==
    /\ cash = QInt(STARTING_CAPITAL)
    /\ positions = << >>
    /\ trailing_stops = << >>
    /\ daily_pl = QInt(0)
    /\ starting_day_value = QInt(STARTING_CAPITAL)
    /\ ledger = << >>
    /\ call = [op |-> "init"]
    /\ pc = "clock"

(* api.get_clock() raises, or the market is closed (log and sleep), or it  *)
(* is open.                                                                *)
LoopClock ==
    /\ pc = "clock"
    /\ \E clock \in {"raises", "closed", "open"} :
          /\ pc' = CASE clock = "raises" -> "exited"
                     [] clock = "closed" -> "clock"
                     [] clock = "open"   -> "reset"
          /\ call' = [op |-> "get_clock", clock |-> clock]
    /\ UNCHANGED State

(* Between 9:00 and 9:34 reset_daily_stats runs (premarket_scan, which     *)
(* follows it, only logs).                                                 *)
LoopReset ==
    /\ pc = "reset"
    /\ \/ /\ \E readings \in [Held -> LoopQuotes] :
                /\ ResetDay(readings)
                /\ pc' = IF AccountValueRaises(Self, readings)
                         THEN "exited" ELSE "sentiment"
       \/ /\ pc' = "sentiment"
          /\ call' = [op |-> "skip_reset"]
          /\ UNCHANGED State
    /\ Len(ledger') <= MaxLoopLedger

LoopSentiment ==
    /\ pc = "sentiment"
    /\ \E signalled \in SUBSET Symbols :
          \E quotes \in [signalled -> LoopQuotes] :
             \E failing \in SUBSET run_sentiment_strategy(Self, quotes, {}).sent :
                LET r == run_sentiment_strategy(Self, quotes, failing)
                IN  /\ Install(r.state)
                    /\ call' = [op |-> "run_sentiment_strategy", sent |-> r.sent]
    /\ pc' = "breakout"
    /\ Len(ledger') <= MaxLoopLedger

LoopBreakout ==
    /\ pc = "breakout"
    /\ \E signalled \in SUBSET Symbols :
          \E quotes \in [signalled -> LoopQuotes] :
             \E failing \in SUBSET run_breakout_strategy(Self, quotes, {}).sent :
                LET r == run_breakout_strategy(Self, quotes, failing)
                IN  /\ Install(r.state)
                    /\ call' = [op |-> "run_breakout_strategy", sent |-> r.sent]
    /\ pc' = "stops"
    /\ Len(ledger') <= MaxLoopLedger

LoopStopLosses ==
    /\ pc = "stops"
    /\ \E readings \in [Held -> LoopQuotes] :
          \E failing \in SUBSET check_stop_losses(Self, readings, {}).sent :
             StopLosses(readings, failing)
    /\ pc' = "profits"
    /\ Len(ledger') <= MaxLoopLedger

LoopTakeProfits ==
    /\ pc = "profits"
    /\ \E readings \in [Held -> LoopQuotes] :
          \E failing \in SUBSET check_take_profits(Self, readings, {}).sent :
             TakeProfits(readings, failing)
    /\ pc' = "close"
    /\ Len(ledger') <= MaxLoopLedger

(* From 15:55 on the positions are liquidated.                             *)
LoopMarketClose ==
    /\ pc = "close"
    /\ \/ \E readings \in [Held -> LoopQuotes] :
             \E failing \in SUBSET
                   close_all_positions_at_market_close(Self, readings, {}).sent :
                MarketClose(readings, failing)
       \/ /\ call' = [op |-> "skip_close"]
          /\ UNCHANGED State
    /\ pc' = "status"
    /\ Len(ledger') <= MaxLoopLedger

(* The status lines: get_account_value reads one more price per held       *)
(* symbol and daily_pl is divided by starting_day_value; then main sleeps  *)
(* and calls run_trading_day again.                                        *)
StatusRaises(s, readings) ==
    AccountValueRaises(s, readings) \/ s.starting_day_value = QInt(0)

LoopStatus ==
    /\ pc = "status"
    /\ \E readings \in [Held -> LoopQuotes] :
          /\ pc' = IF StatusRaises(Self, readings) THEN "exited" ELSE "clock"
          /\ call' = [op |-> "get_account_value",
                      raised |-> StatusRaises(Self, readings)]
    /\ UNCHANGED State

NextMain ==
    \/ LoopClock
    \/ LoopReset
    \/ LoopSentiment
    \/ LoopBreakout
    \/ LoopStopLosses
    \/ LoopTakeProfits
    \/ LoopMarketClose
    \/ LoopStatus

SpecMain == InitMain /\ [][NextMain]_vars

---------------------------------------------------------------------------
(* The maintenance cycles in depth.  The book is the one two accepted buys *)
(* of 50 leave (two symbols, or one symbol bought twice and averaged), and *)
(* from there only the three cycles run, with every reading and every set  *)
(* of refused orders.                                                      *)

TwoBuys(first, second) ==
    LET start == [cash |-> QInt(STARTING_CAPITAL), positions |-> << >>,
                  trailing_stops |-> << >>, daily_pl |-> QInt(0),
                  starting_day_value |-> QInt(STARTING_CAPITAL),
                  ledger |-> << >>]
        one   == execute_buy(start, first.symbol, first.price, QInt(50),
                             first.strategy, TRUE).state
    IN  execute_buy(one, second.symbol, second.price, QInt(50),
                    second.strategy, TRUE).state

BuyInputs == [symbol : Symbols, price : Prices, strategy : Enabled]

InitCycle ==
    /\ \E first \in {b \in BuyInputs : b.symbol = "AAPL"}, second \in BuyInputs :
          LET s == TwoBuys(first, second)
          IN  /\ cash = s.cash
              /\ positions = s.positions
              /\ trailing_stops = s.trailing_stops
              /\ daily_pl = s.daily_pl
              /\ starting_day_value = s.starting_day_value
              /\ ledger = s.ledger
    /\ call = [op |-> "execute_buy", ret |-> TRUE, sent |-> {ledger[2].symbol}]
    /\ pc = "idle"

CycleStopLosses ==
    /\ \E readings \in [Held -> Readings] :
          \E failing \in SUBSET check_stop_losses(Self, readings, {}).sent :
             StopLosses(readings, failing)
    /\ UNCHANGED pc

CycleTakeProfits ==
    /\ \E readings \in [Held -> Readings] :
          \E failing \in SUBSET check_take_profits(Self, readings, {}).sent :
             TakeProfits(readings, failing)
    /\ UNCHANGED pc

CycleMarketClose ==
    /\ \E readings \in [Held -> Readings] :
          \E failing \in SUBSET
                close_all_positions_at_market_close(Self, readings, {}).sent :
             MarketClose(readings, failing)
    /\ UNCHANGED pc

NextCycle ==
    \/ CycleStopLosses
    \/ CycleTakeProfits
    \/ CycleMarketClose

SpecCycle == InitCycle /\ [][NextCycle]_vars

---------------------------------------------------------------------------
(* The strategy runs together with direct calls of the risk manager: the   *)
(* runs size their own buys from the cash that buys and sells have left.   *)

MaxRunsLedger == 3

RunsQuotes == {QInt(10)}

SentimentRun(quotes, failing) ==
    LET r == run_sentiment_strategy(Self, quotes, failing)
    IN  /\ Install(r.state)
        /\ call' = [op |-> "run_sentiment_strategy", sent |-> r.sent]

BreakoutRun(quotes, failing) ==
    LET r == run_breakout_strategy(Self, quotes, failing)
    IN  /\ Install(r.state)
        /\ call' = [op |-> "run_breakout_strategy", sent |-> r.sent]

RunsBuy ==
    /\ \E quote \in DayQuotes, amount \in DayAmounts, strategy \in DayTags :
          Buy(quote[1], quote[2], amount, strategy, TRUE)
    /\ Len(ledger') <= MaxRunsLedger
    /\ UNCHANGED pc

RunsSell ==
    /\ \E symbol \in Symbols, price \in Prices, shares \in DayShares,
          strategy \in DayTags :
          Sell(symbol, price, shares, strategy, TRUE)
    /\ Len(ledger') <= MaxRunsLedger
    /\ UNCHANGED pc

RunsSentiment ==
    /\ \E signalled \in SUBSET Symbols :
          \E quotes \in [signalled -> RunsQuotes] : SentimentRun(quotes, {})
    /\ Len(ledger') <= MaxRunsLedger
    /\ UNCHANGED pc

RunsBreakout ==
    /\ \E signalled \in SUBSET Symbols :
          \E quotes \in [signalled -> RunsQuotes] : BreakoutRun(quotes, {})
    /\ Len(ledger') <= MaxRunsLedger
    /\ UNCHANGED pc

RunsStopLosses ==
    /\ \E readings \in [Held -> DayReadings] : StopLosses(readings, {})
    /\ Len(ledger') <= MaxRunsLedger
    /\ UNCHANGED pc

RunsMarketClose ==
    /\ \E readings \in [Held -> DayReadings] : MarketClose(readings, {})
    /\ Len(ledger') <= MaxRunsLedger
    /\ UNCHANGED pc

NextRuns ==
    \/ RunsBuy
    \/ RunsSell
    \/ RunsSentiment
    \/ RunsBreakout
    \/ RunsStopLosses
    \/ RunsMarketClose

SpecRuns == Init /\ [][NextRuns]_vars

---------------------------------------------------------------------------
(* check_take_profits in depth.  The book is the one two accepted buys of  *)
(* 50 leave, the first of AAPL at 10, under any of the three strategy tags *)
(* (execute_buy takes the tag as given); the readings sit on and between   *)
(* the three targets of an entry at 10.                                    *)

TargetReadings == {None, QInt(10), QInt(11), QInt(13), QInt(15)}

TargetBuys == [symbol : Symbols, price : Prices, strategy : Strategies]

InitTarget ==
    /\ \E first \in {b \in TargetBuys : b.symbol = "AAPL" /\ b.price = QInt(10)},
          second \in TargetBuys :
          LET s == TwoBuys(first, second)
          IN  /\ cash = s.cash
              /\ positions = s.positions
              /\ trailing_stops = s.trailing_stops
              /\ daily_pl = s.daily_pl
              /\ starting_day_value = s.starting_day_value
              /\ ledger = s.ledger
    /\ call = [op |-> "execute_buy", ret |-> TRUE, sent |-> {ledger[2].symbol}]
    /\ pc = "idle"

TargetTakeProfits ==
    /\ \E readings \in [Held -> TargetReadings] :
          \E failing \in SUBSET check_take_profits(Self, readings, {}).sent :
             TakeProfits(readings, failing)
    /\ UNCHANGED pc

NextTarget == TargetTakeProfits

SpecTarget == InitTarget /\ [][NextTarget]_vars

---------------------------------------------------------------------------
(* Properties of the risk manager under Spec.                              *)

BreakerTripped == QLe(daily_pl, DailyLossLimit(Self))

OneMinusTrailing == Q(9, 10)

(* C1: a buy called with amount > MAX_RISK_PER_TRADE, or while daily_pl is *)
(* at or below -MAX_DAILY_LOSS_PERCENT * starting_day_value, or with       *)
(* amount > cash returns False, sends no order and changes no field and    *)
(* no ledger row.  (Every step is as described or is not that call.)       *)
RejectedBuyHasNoSideEffect ==
    [][call'.op = "execute_buy" =>
       \A symbol \in Symbols, price \in Prices, amount \in Amounts,
          strategy \in Enabled, ok \in BOOLEAN :
          ( \/ QLt(QInt(MAX_RISK_PER_TRADE), amount)
            \/ BreakerTripped
            \/ QLt(cash, amount) )
          => \/ /\ call'.ret = FALSE
                /\ call'.sent = {}
                /\ UNCHANGED State
             \/ ~Buy(symbol, price, amount, strategy, ok)]_vars

RejectedBuyWitness ==
    /\ call.op = "execute_buy"
    /\ call.ret = FALSE
    /\ call.sent = {}
    /\ BreakerTripped
    /\ QLe(QInt(50), cash)

(* C3: a check_stop_losses cycle leaves each trailing stop unchanged,      *)
(* raises it to (1 - TRAILING_STOP_PERCENT) times the price read for its   *)
(* symbol, or closes the position; it never lowers one.                    *)
TrailingStopRatchets ==
    [][call'.op = "check_stop_losses" =>
       \A readings \in [Held -> Readings], failing \in SUBSET Held :
          \/ \A symbol \in DOMAIN trailing_stops :
                \/ /\ symbol \in DOMAIN trailing_stops'
                   /\ trailing_stops'[symbol] = trailing_stops[symbol]
                \/ /\ symbol \in DOMAIN trailing_stops'
                   /\ readings[symbol] # None
                   /\ trailing_stops'[symbol] =
                          QMul(readings[symbol], OneMinusTrailing)
                   /\ QLt(trailing_stops[symbol], trailing_stops'[symbol])
                \/ /\ symbol \notin DOMAIN trailing_stops'
                   /\ ~HasPosition(positions', symbol)
          \/ ~StopLosses(readings, failing)]_vars

(* A stop that a cycle raised: after one buy the stop stands above         *)
(* (1 - TRAILING_STOP_PERCENT) times the entry price.                      *)
TrailingStopRaised ==
    /\ call.op = "check_stop_losses"
    /\ Len(ledger) = 1
    /\ \E symbol \in DOMAIN trailing_stops :
          /\ HasPosition(positions, symbol)
          /\ QLt(QMul(PositionOf(positions, symbol).entry_price,
                      OneMinusTrailing),
                 trailing_stops[symbol])

(* C4: between the step that sets trailing_stops[symbol] and the step that *)
(* closes the position, no operation lowers it.                            *)
TrailingStopNeverDecreases ==
    [][\A symbol \in DOMAIN trailing_stops :
          ( /\ HasPosition(positions, symbol)
            /\ HasPosition(positions', symbol)
            /\ symbol \in DOMAIN trailing_stops' )
          => QLe(trailing_stops[symbol], trailing_stops'[symbol])]_vars

(* C6: an accepted buy takes amount from cash, opens the position with     *)
(* amount / price shares at price or merges into it at the volume-weighted *)
(* average, sets the trailing stop of a breakout buy, and leaves daily_pl  *)
(* and the other symbols' positions alone.                                 *)
OtherPositionsUnchanged(symbol) ==
    \A other \in Symbols \ {symbol} :
        /\ HasPosition(positions', other) = HasPosition(positions, other)
        /\ HasPosition(positions, other) =>
              PositionOf(positions', other) = PositionOf(positions, other)

AcceptedBuyBookkeeping ==
    [][(call'.op = "execute_buy" /\ call'.ret = TRUE) =>
       \A symbol \in Symbols, price \in Prices, amount \in Amounts,
          strategy \in Enabled :
          \/ /\ cash' = QSub(cash, amount)
             /\ daily_pl' = daily_pl
             /\ HasPosition(positions', symbol)
             /\ IF HasPosition(positions, symbol)
                THEN LET old == PositionOf(positions, symbol)
                         new == PositionOf(positions', symbol)
                     IN  /\ new.shares = QAdd(old.shares, QDiv(amount, price))
                         /\ QMul(new.entry_price, new.shares) =
                               QAdd(QMul(old.shares, old.entry_price),
                                    QMul(QDiv(amount, price), price))
                ELSE LET new == PositionOf(positions', symbol)
                     IN  /\ new.shares = QDiv(amount, price)
                         /\ new.entry_price = price
             /\ strategy = "breakout" =>
                   /\ symbol \in DOMAIN trailing_stops'
                   /\ trailing_stops'[symbol] = QMul(price, OneMinusTrailing)
             /\ OtherPositionsUnchanged(symbol)
          \/ ~Buy(symbol, price, amount, strategy, TRUE)]_vars

(* A second buy merged into a position at another price.                   *)
MergedBuyWitness ==
    /\ call.op = "execute_buy"
    /\ call.ret = TRUE
    /\ Len(ledger) = 2
    /\ Len(positions) = 1
    /\ ledger[2].action = <<"BUY">>
    /\ ledger[2].strategy = "breakout"
    /\ positions[1].entry_price # ledger[2].price
    /\ positions[1].entry_price # ledger[1].price

(* C7: a successful sell of all s shares of a position entered at e, at    *)
(* price p, records pnl = (p - e) * s, adds it to daily_pl, adds s * p to  *)
(* cash and removes the symbol from positions and trailing_stops.          *)
FullSellBookkeeping ==
    [][(call'.op = "execute_sell" /\ call'.ret = TRUE) =>
       \A symbol \in Held, price \in Prices, shares \in ShareInputs,
          strategy \in SellTags :
          shares = PositionOf(positions, symbol).shares =>
             \/ LET e   == PositionOf(positions, symbol).entry_price
                    pnl == QMul(QSub(price, e), shares)
                IN  /\ ledger'[Len(ledger')].pnl = pnl
                    /\ daily_pl' = QAdd(daily_pl, pnl)
                    /\ cash' = QAdd(cash, QMul(shares, price))
                    /\ ~HasPosition(positions', symbol)
                    /\ symbol \notin DOMAIN trailing_stops'
             \/ ~Sell(symbol, price, shares, strategy, TRUE)]_vars

(* The round trip of the specification at the scale the risk limit allows: *)
(* 5 shares entered at 10 and sold at 20 give pnl 50 and no position.      *)
RoundTripWitness ==
    /\ call.op = "execute_sell"
    /\ call.ret = TRUE
    /\ Len(ledger) = 2
    /\ ledger[1].action = <<"BUY">>
    /\ ledger[1].strategy = "breakout"
    /\ ledger[1].price = QInt(10)
    /\ ledger[1].shares = QInt(5)
    /\ ledger[2].symbol = ledger[1].symbol
    /\ ledger[2].price = QInt(20)
    /\ ledger[2].shares = QInt(5)
    /\ ledger[2].pnl = QInt(50)
    /\ daily_pl = QInt(50)
    /\ cash = QInt(150)
    /\ positions = << >>
    /\ trailing_stops = << >>

(* C8: a sell of fewer shares than held takes exactly that many shares     *)
(* from the position and keeps its entry price, its strategy tag and every *)
(* trailing stop; a sell deletes a trailing stop only when it removes the  *)
(* position.                                                               *)
PartialSellFrame ==
    [][call'.op = "execute_sell" =>
       /\ \A symbol \in DOMAIN trailing_stops :
             symbol \notin DOMAIN trailing_stops' =>
                (HasPosition(positions, symbol) /\ ~HasPosition(positions', symbol))
       /\ call'.ret = TRUE =>
          \A symbol \in Held, price \in Prices, shares \in ShareInputs,
             strategy \in SellTags :
             QLt(shares, PositionOf(positions, symbol).shares) =>
                \/ /\ HasPosition(positions', symbol)
                   /\ LET old == PositionOf(positions, symbol)
                          new == PositionOf(positions', symbol)
                      IN  /\ new.shares = QSub(old.shares, shares)
                          /\ new.entry_price = old.entry_price
                          /\ new.strategy = old.strategy
                   /\ trailing_stops' = trailing_stops
                \/ ~Sell(symbol, price, shares, strategy, TRUE)]_vars

(* Two of five breakout shares sold under another tag: three remain, with  *)
(* the tag and the stop.                                                   *)
PartialSellWitness ==
    /\ call.op = "execute_sell"
    /\ call.ret = TRUE
    /\ Len(ledger) = 2
    /\ ledger[2].shares = QInt(2)
    /\ ledger[2].strategy = "sentiment"
    /\ Len(positions) = 1
    /\ positions[1].shares = QInt(3)
    /\ positions[1].strategy = "breakout"
    /\ positions[1].symbol \in DOMAIN trailing_stops

(* C9: when the broker refuses the order of an execute_buy or an           *)
(* execute_sell, the call returns False and no field and no ledger row     *)
(* changes.                                                                *)
FailedOrderChangesNothing ==
    [][call'.op \in {"execute_buy", "execute_sell"} =>
       \/ /\ call'.ret = FALSE
          /\ UNCHANGED State
       \/ /\ \A symbol \in Symbols, price \in Prices, amount \in Amounts,
                strategy \in Enabled :
                ~Buy(symbol, price, amount, strategy, FALSE)
          /\ \A symbol \in Symbols, price \in Prices, shares \in ShareInputs,
                strategy \in SellTags :
                ~Sell(symbol, price, shares, strategy, FALSE)]_vars

(* A buy that passed admission and was refused by the broker, with a       *)
(* position already open.                                                  *)
FailedOrderWitness ==
    /\ call.op = "execute_buy"
    /\ call.ret = FALSE
    /\ call.sent # {}
    /\ Len(positions) = 1
    /\ cash = QInt(50)

---------------------------------------------------------------------------
(* Properties of the trading day under SpecDay.                            *)

BuyBlocked ==
    \A symbol \in Symbols, price \in Prices, amount \in Amounts,
       strategy \in Enabled :
       execute_buy(Self, symbol, price, amount, strategy, TRUE).ret = FALSE

(* C2: once daily_pl <= -MAX_DAILY_LOSS_PERCENT * starting_day_value has   *)
(* held, every execute_buy is rejected until reset_daily_stats runs: no    *)
(* step other than a reset leads from a tripped breaker to a state where a *)
(* buy would be accepted.                                                  *)
BreakerLatches ==
    [][(BreakerTripped /\ call'.op # "reset_daily_stats") => BuyBlocked']_vars

(* C5: cash is never negative.                                             *)
CashNonNegative == QLe(QInt(0), cash)

(* All the cash spent, and a buy turned down for lack of it.               *)
CashExhausted ==
    /\ cash = QInt(0)
    /\ Len(positions) = 2
    /\ call.op = "execute_buy"
    /\ call.ret = FALSE

---------------------------------------------------------------------------
(* Properties of the control loop under SpecMain.                          *)

(* C10: whatever the clock, the price feed and the broker do, main's loop  *)
(* goes on calling run_trading_day: it never exits.                        *)
ControlLoopNeverExits == pc # "exited"

---------------------------------------------------------------------------
(* Properties of the maintenance cycles under SpecCycle.                     *)

NewRows == SubSeq(ledger', Len(ledger) + 1, Len(ledger'))

RowTerm(row, kind) ==
    IF kind = "proceeds" THEN QMul(row.shares, row.price) ELSE row.pnl

RECURSIVE SumOver(_, _)
SumOver(rows, kind) ==
    IF rows = << >> THEN QInt(0)
    ELSE QAdd(RowTerm(Head(rows), kind), SumOver(Tail(rows), kind))

PositionKept(symbol) ==
    /\ HasPosition(positions', symbol)
    /\ PositionOf(positions', symbol) = PositionOf(positions, symbol)
    /\ (symbol \in DOMAIN trailing_stops) = (symbol \in DOMAIN trailing_stops')
    /\ symbol \in DOMAIN trailing_stops =>
          trailing_stops'[symbol] = trailing_stops[symbol]

(* What a cycle does with the symbols it has no price for: no order, no    *)
(* ledger row, position and stop kept; cash and daily_pl move only by the  *)
(* rows of the symbols that have a price.                                  *)
AbsentSkipped(readings) ==
    /\ \A symbol \in Held :
          readings[symbol] = None =>
             /\ symbol \notin call'.sent
             /\ PositionKept(symbol)
             /\ \A i \in 1..Len(NewRows) : NewRows[i].symbol # symbol
    /\ cash' = QAdd(cash, SumOver(NewRows, "proceeds"))
    /\ daily_pl' = QAdd(daily_pl, SumOver(NewRows, "pnl"))

(* The take-profit multiples as the specification states them.             *)
TargetMultiple(tag) ==
    CASE tag = "sentiment"      -> Q(3, 2)
      [] tag = "breakout"       -> Q(13, 10)
      [] tag = "mean_reversion" -> Q(11, 10)

(* What a step of a cycle shows: the state after it and the orders sent.   *)
(* A step is the cycle run on given readings and refusals exactly when the *)
(* cycle's outcome on them equals it.                                      *)
Observed == Outcome(Self', FALSE, call'.sent)

(* C11: a cycle of check_stop_losses, check_take_profits or                *)
(* close_all_positions_at_market_close skips every symbol whose price is   *)
(* absent (no order, position, stop, cash and daily_pl untouched by it)    *)
(* and still processes the symbols that have a price: a priced symbol at   *)
(* or below its stop-loss level, at or above its take-profit level, or at  *)
(* market close, is sold unless the broker refuses the order.              *)
AbsentPriceSkipsSymbol ==
    [][/\ call'.op = "check_stop_losses" =>
          \A readings \in [Held -> Readings], failing \in SUBSET Held :
             \/ /\ AbsentSkipped(readings)
                /\ \A symbol \in Held \ failing :
                      ( /\ readings[symbol] # None
                        /\ QLe(readings[symbol],
                               QMul(PositionOf(positions, symbol).entry_price,
                                    Q(95, 100))) )
                      => ~HasPosition(positions', symbol)
             \/ check_stop_losses(Self, readings, failing) # Observed
       /\ call'.op = "check_take_profits" =>
          \A readings \in [Held -> Readings], failing \in SUBSET Held :
             \/ /\ AbsentSkipped(readings)
                /\ \A symbol \in Held \ failing :
                      ( /\ readings[symbol] # None
                        /\ QLe(QMul(PositionOf(positions, symbol).entry_price,
                                    TargetMultiple(
                                       PositionOf(positions, symbol).strategy)),
                               readings[symbol]) )
                      => ~HasPosition(positions', symbol)
             \/ check_take_profits(Self, readings, failing) # Observed
       /\ call'.op = "close_all_positions_at_market_close" =>
          \A readings \in [Held -> Readings], failing \in SUBSET Held :
             \/ /\ AbsentSkipped(readings)
                /\ \A symbol \in Held \ failing :
                      readings[symbol] # None => ~HasPosition(positions', symbol)
             \/ close_all_positions_at_market_close(Self, readings, failing)
                   # Observed]_vars

(* A market-close cycle over two positions, one without a price: the       *)
(* priced one is sold, the other is still held.                            *)
AbsentPriceWitness ==
    /\ call.op = "close_all_positions_at_market_close"
    /\ call.sent # {}
    /\ Len(ledger) = 3
    /\ ledger[1].action = <<"BUY">>
    /\ ledger[2].action = <<"BUY">>
    /\ ledger[3].action = <<"SELL", "market_close">>
    /\ Len(positions) = 1
    /\ positions[1].symbol \notin call.sent

(* The cycle closed the position fully for the given reason: its shares    *)
(* were sold in one new ledger row and the symbol left the book.           *)
ClosedFor(symbol, reason) ==
    /\ ~HasPosition(positions', symbol)
    /\ \E i \in 1..Len(NewRows) :
          /\ NewRows[i].symbol = symbol
          /\ NewRows[i].action = <<"SELL", reason>>
          /\ NewRows[i].shares = PositionOf(positions, symbol).shares

RowFor(symbol, reason) ==
    \E i \in 1..Len(NewRows) :
       /\ NewRows[i].symbol = symbol
       /\ NewRows[i].action = <<"SELL", reason>>

AtStopLoss(symbol, readings) ==
    /\ readings[symbol] # None
    /\ QLe(readings[symbol],
           QMul(PositionOf(positions, symbol).entry_price, Q(95, 100)))

(* C13 as stated: in a check_stop_losses cycle every open position whose   *)
(* price is at or below entry_price * (1 - STOP_LOSS_PERCENT) is closed    *)
(* fully with reason stop_loss, and no position whose price is above that  *)
(* level is closed with reason stop_loss.                                  *)
StopLossClosesEveryPosition ==
    [][call'.op = "check_stop_losses" =>
       \A readings \in [Held -> Readings], failing \in SUBSET Held :
          \/ \A symbol \in Held :
                /\ AtStopLoss(symbol, readings) => ClosedFor(symbol, "stop_loss")
                /\ RowFor(symbol, "stop_loss") => AtStopLoss(symbol, readings)
          \/ check_stop_losses(Self, readings, failing) # Observed]_vars

(* C13 amended: every open position whose price is at or below             *)
(* entry_price * (1 - STOP_LOSS_PERCENT) is closed fully with reason       *)
(* stop_loss when the broker accepts the sell order and is left as it was  *)
(* when the broker refuses it; no position whose price is above that level *)
(* is closed with reason stop_loss.                                        *)
StopLossClosesUnlessRefused ==
    [][call'.op = "check_stop_losses" =>
       \A readings \in [Held -> Readings], failing \in SUBSET Held :
          \/ \A symbol \in Held :
                /\ AtStopLoss(symbol, readings) =>
                      /\ symbol \in call'.sent
                      /\ IF symbol \in failing THEN PositionKept(symbol)
                         ELSE ClosedFor(symbol, "stop_loss")
                /\ RowFor(symbol, "stop_loss") => AtStopLoss(symbol, readings)
          \/ check_stop_losses(Self, readings, failing) # Observed]_vars

(* A cycle with both positions at their stop-loss level: one is sold for   *)
(* stop_loss, the order for the other was refused and it is still held.    *)
StopLossWitness ==
    /\ call.op = "check_stop_losses"
    /\ Len(ledger) = 3
    /\ ledger[3].action = <<"SELL", "stop_loss">>
    /\ Len(positions) = 1
    /\ positions[1].symbol \in call.sent
    /\ ledger[3].symbol \in call.sent

Trailed(symbol) ==
    /\ PositionOf(positions, symbol).strategy = "breakout"
    /\ symbol \in DOMAIN trailing_stops

StopKept(symbol) ==
    /\ symbol \in DOMAIN trailing_stops'
    /\ trailing_stops'[symbol] = trailing_stops[symbol]

StopRaisedTo(symbol, price) ==
    /\ symbol \in DOMAIN trailing_stops'
    /\ trailing_stops'[symbol] = QMul(price, OneMinusTrailing)

(* The three cases of the trailing-stop rule for one breakout position     *)
(* with a stop and a price; closing(symbol) is what "is closed" asks for.  *)
TrailingCases(symbol, price, closing(_)) ==
    IF QLe(price, trailing_stops[symbol]) THEN closing(symbol)
    ELSE IF QLt(QDiv(trailing_stops[symbol], OneMinusTrailing), price)
    THEN StopRaisedTo(symbol, price) /\ HasPosition(positions', symbol)
    ELSE StopKept(symbol) /\ HasPosition(positions', symbol)

ClosedForTrailingStop(symbol) == ClosedFor(symbol, "trailing_stop")

(* C14 as stated: for an open breakout position in a check_stop_losses     *)
(* cycle, price <= trailing_stop closes it with reason trailing_stop,      *)
(* otherwise price > trailing_stop / (1 - TRAILING_STOP_PERCENT) sets the  *)
(* stop to price * (1 - TRAILING_STOP_PERCENT), otherwise the stop is      *)
(* unchanged; a position with another tag is never closed with reason      *)
(* trailing_stop.                                                          *)
TrailingStopRule ==
    [][call'.op = "check_stop_losses" =>
       \A readings \in [Held -> Readings], failing \in SUBSET Held :
          \/ \A symbol \in Held :
                /\ (Trailed(symbol) /\ readings[symbol] # None) =>
                      TrailingCases(symbol, readings[symbol],
                                    ClosedForTrailingStop)
                /\ RowFor(symbol, "trailing_stop") =>
                      PositionOf(positions, symbol).strategy = "breakout"
          \/ check_stop_losses(Self, readings, failing) # Observed]_vars

(* C14 amended: the rule applies to a breakout position whose price is     *)
(* above its stop-loss level (at or below it the stop-loss rule takes the  *)
(* position first and the stop is not raised), and a close is a sell order *)
(* that closes the position with reason trailing_stop when the broker      *)
(* accepts it and leaves position and stop as they were when it refuses.   *)
TrailingStopRuleAfterStopLoss ==
    [][call'.op = "check_stop_losses" =>
       \A readings \in [Held -> Readings], failing \in SUBSET Held :
          \/ \A symbol \in Held :
                /\ (Trailed(symbol) /\ readings[symbol] # None) =>
                      IF AtStopLoss(symbol, readings)
                      THEN /\ ~RowFor(symbol, "trailing_stop")
                           /\ HasPosition(positions', symbol) => StopKept(symbol)
                      ELSE LET Closing(s) ==
                                  /\ s \in call'.sent
                                  /\ IF s \in failing THEN PositionKept(s)
                                     ELSE ClosedFor(s, "trailing_stop")
                           IN  TrailingCases(symbol, readings[symbol], Closing)
                /\ RowFor(symbol, "trailing_stop") =>
                      PositionOf(positions, symbol).strategy = "breakout"
          \/ check_stop_losses(Self, readings, failing) # Observed]_vars

(* A breakout position whose stop a cycle had raised above its entry, then *)
(* closed by a later cycle for trailing_stop at a price above its          *)
(* stop-loss level.                                                        *)
TrailingStopWitness ==
    /\ call.op = "check_stop_losses"
    /\ Len(ledger) = 3
    /\ ledger[3].action = <<"SELL", "trailing_stop">>
    /\ ledger[3].strategy = "breakout"
    /\ Len(positions) = 1
    /\ positions[1].symbol # ledger[3].symbol

(* C16 as stated: close_all_positions_at_market_close closes every open    *)
(* position with reason market_close, whatever its P&L, and leaves the     *)
(* position book empty.                                                    *)
MarketCloseEmptiesBook ==
    [][call'.op = "close_all_positions_at_market_close" =>
          /\ positions' = << >>
          /\ \A symbol \in Held : ClosedFor(symbol, "market_close")]_vars

(* C16 amended: every open position that has a price gets a sell order for *)
(* all its shares at that price; the order closes it with reason           *)
(* market_close, at a gain or at a loss, when the broker accepts it; a     *)
(* position without a price or with a refused order stays as it was, and   *)
(* the book is empty after the cycle exactly when there is no such         *)
(* position.                                                               *)
MarketCloseClosesPriced ==
    [][call'.op = "close_all_positions_at_market_close" =>
       \A readings \in [Held -> Readings], failing \in SUBSET Held :
          \/ /\ \A symbol \in Held :
                   /\ symbol \in call'.sent <=> readings[symbol] # None
                   /\ IF readings[symbol] # None /\ symbol \notin failing
                      THEN /\ ClosedFor(symbol, "market_close")
                           /\ \E i \in 1..Len(NewRows) :
                                 /\ NewRows[i].symbol = symbol
                                 /\ NewRows[i].price = readings[symbol]
                      ELSE PositionKept(symbol)
             /\ positions' = << >> <=>
                   \A symbol \in Held :
                      readings[symbol] # None /\ symbol \notin failing
          \/ close_all_positions_at_market_close(Self, readings, failing)
                # Observed]_vars

(* A liquidation that emptied a book of two positions, one sold at a loss  *)
(* and one at a gain.                                                      *)
MarketCloseWitness ==
    /\ call.op = "close_all_positions_at_market_close"
    /\ positions = << >>
    /\ Len(ledger) = 4
    /\ ledger[3].action = <<"SELL", "market_close">>
    /\ ledger[4].action = <<"SELL", "market_close">>
    /\ QLt(ledger[3].pnl, QInt(0))
    /\ QLt(QInt(0), ledger[4].pnl)

---------------------------------------------------------------------------
(* Properties of check_take_profits under SpecTarget.                      *)

AtTarget(symbol, readings) ==
    /\ readings[symbol] # None
    /\ QLe(QMul(PositionOf(positions, symbol).entry_price,
                TargetMultiple(PositionOf(positions, symbol).strategy)),
           readings[symbol])

(* C15 as stated: in a check_take_profits cycle an open position is closed *)
(* fully with reason take_profit exactly when its price is at or above its *)
(* current entry_price times the multiple of its current tag.              *)
TakeProfitClosesExactlyAtTarget ==
    [][call'.op = "check_take_profits" =>
       \A readings \in [Held -> TargetReadings], failing \in SUBSET Held :
          \/ \A symbol \in Held :
                /\ AtTarget(symbol, readings) => ClosedFor(symbol, "take_profit")
                /\ HasPosition(positions', symbol) <=> ~AtTarget(symbol, readings)
          \/ check_take_profits(Self, readings, failing) # Observed]_vars

(* C15 amended: a sell order for the whole position is submitted exactly   *)
(* when the price is at or above the target; it closes the position with   *)
(* reason take_profit when the broker accepts it and leaves the position   *)
(* as it was when the broker refuses it.                                   *)
TakeProfitClosesUnlessRefused ==
    [][call'.op = "check_take_profits" =>
       \A readings \in [Held -> TargetReadings], failing \in SUBSET Held :
          \/ \A symbol \in Held :
                /\ symbol \in call'.sent <=> AtTarget(symbol, readings)
                /\ IF AtTarget(symbol, readings) /\ symbol \notin failing
                   THEN ClosedFor(symbol, "take_profit")
                   ELSE PositionKept(symbol)
          \/ check_take_profits(Self, readings, failing) # Observed]_vars

(* A mean_reversion position entered at 10 and closed for take_profit at   *)
(* 11, while the other position, read at 13 against an entry of 10 and a   *)
(* sentiment tag, stays.                                                   *)
TakeProfitWitness ==
    /\ call.op = "check_take_profits"
    /\ Len(ledger) = 3
    /\ ledger[3].action = <<"SELL", "take_profit">>
    /\ ledger[3].strategy = "mean_reversion"
    /\ ledger[3].price = QInt(11)
    /\ ledger[3].pnl = QInt(5)
    /\ Len(positions) = 1
    /\ positions[1].strategy = "sentiment"
    /\ positions[1].entry_price = QInt(10)

---------------------------------------------------------------------------
(* Properties of the position book under SpecRuns.                         *)

(* C12: every position of the book has shares > 0 and entry_price > 0.     *)
PositionsArePositive ==
    \A i \in 1..Len(positions) :
        /\ QLt(QInt(0), positions[i].shares)
        /\ QLt(QInt(0), positions[i].entry_price)

(* A step that holds at most one call of execute_buy or execute_sell that  *)
(* got as far as its order: a direct call, or a strategy run that sent at  *)
(* most one order (its other calls were turned down before the order and   *)
(* changed nothing).                                                       *)
SingleTradeStep ==
    /\ call'.op \in {"execute_buy", "execute_sell",
                     "run_sentiment_strategy", "run_breakout_strategy"}
    /\ Cardinality(call'.sent) <= 1

IsPrefix(old, new) ==
    /\ Len(old) <= Len(new)
    /\ SubSeq(new, 1, Len(old)) = old

(* C17: the ledger only grows; a call of execute_buy or execute_sell that  *)
(* changes cash or positions appends exactly one record whose cash field   *)
(* is the cash after the trade, and a call that changes nothing appends    *)
(* none.                                                                   *)
LedgerOneRecordPerTrade ==
    [][/\ IsPrefix(ledger, ledger')
       /\ SingleTradeStep =>
             IF cash' # cash \/ positions' # positions
             THEN /\ Len(ledger') = Len(ledger) + 1
                  /\ ledger'[Len(ledger')].cash_remaining = cash'
             ELSE ledger' = ledger]_vars

(* The three conditions of C18, in the claim's words.                       *)
ThreeConditions(amount) ==
    /\ QLe(amount, QInt(MAX_RISK_PER_TRADE))
    /\ QLt(QNeg(QMul(MAX_DAILY_LOSS_PERCENT, starting_day_value)), daily_pl)
    /\ QLe(amount, cash)

(* The step bought: it appended a BUY record.                              *)
BoughtInStep ==
    /\ Len(ledger') = Len(ledger) + 1
    /\ ledger'[Len(ledger')].action = <<"BUY">>

(* C18: with the order accepted by the broker, execute_buy is accepted     *)
(* exactly when amount <= MAX_RISK_PER_TRADE, daily_pl is above the        *)
(* negative daily limit and amount <= cash.  Stated of the direct calls    *)
(* and of the one call that a strategy run with a single signalled symbol  *)
(* makes, for the risk amount the run computes.                            *)
BuyAdmittedOnThreeConditions ==
    [][/\ call'.op = "execute_buy" =>
             \A quote \in DayQuotes, amount \in DayAmounts, tag \in DayTags :
                \/ call'.ret <=> ThreeConditions(amount)
                \/ execute_buy(Self, quote[1], quote[2], amount, tag, TRUE)
                      # Outcome(Self', call'.ret, call'.sent)
       /\ call'.op \in {"run_sentiment_strategy", "run_breakout_strategy"} =>
             \A symbol \in Symbols, price \in RunsQuotes :
                LET quotes == [x \in {symbol} |-> price]
                    run    == IF call'.op = "run_sentiment_strategy"
                              THEN run_sentiment_strategy(Self, quotes, {})
                              ELSE run_breakout_strategy(Self, quotes, {})
                IN  \/ BoughtInStep <=> ThreeConditions(RiskAmount(Self))
                    \/ run # Observed]_vars

---------------------------------------------------------------------------
(* breakout.py: the breakout and breakdown detectors.  A series (the       *)
(* DataFrame df) is a sequence of bars with the columns high, low, close   *)
(* and volume; call holds the series and period handed to a detector and   *)
(* what it returned.                                                       *)

(* pandas' missing value: what a rolling window gives before it is full.   *)
(* Every comparison with it is false.                                      *)
NaN == <<"NaN">>

Gt(a, b) == a # NaN /\ b # NaN /\ QLt(b, a)

(* The largest, the smallest and the sum of a column over the rows from    *)
(* .. to, taken by halves of the range.                                    *)
RECURSIVE WindowMax(_, _, _, _)
WindowMax(df, column, from, to) ==
    IF from = to THEN df[to][column]
    ELSE LET mid == (from + to) \div 2
         IN  QMax(WindowMax(df, column, from, mid),
                  WindowMax(df, column, mid + 1, to))

RECURSIVE WindowMin(_, _, _, _)
WindowMin(df, column, from, to) ==
    IF from = to THEN df[to][column]
    ELSE LET mid == (from + to) \div 2
         IN  QMin(WindowMin(df, column, from, mid),
                  WindowMin(df, column, mid + 1, to))

RECURSIVE WindowSum(_, _, _, _)
WindowSum(df, column, from, to) ==
    IF from > to THEN QInt(0)
    ELSE IF from = to THEN df[to][column]
    ELSE LET mid == (from + to) \div 2
         IN  QAdd(WindowSum(df, column, from, mid),
                  WindowSum(df, column, mid + 1, to))

(* df[column].rolling(window=period).max() at row i (rows count from 1);   *)
(* .shift(1).iloc[-1] reads it at the row before the last.                 *)
RollingMax(df, column, period, i) ==
    IF i < period \/ i > Len(df) THEN NaN
    ELSE WindowMax(df, column, i - period + 1, i)

RollingMin(df, column, period, i) ==
    IF i < period \/ i > Len(df) THEN NaN
    ELSE WindowMin(df, column, i - period + 1, i)

RollingMean(df, column, period, i) ==
    IF i < period \/ i > Len(df) THEN NaN
    ELSE QDiv(WindowSum(df, column, i - period + 1, i), QInt(period))

(* Mutant: the mean of the period bars before the last one.                *)
calculate_average_volume_before_last(df, period) ==
    RollingMean(df, "volume", period, Len(df) - 1)

calculate_average_volume(df, period) ==
    RollingMean(df, "volume", period, Len(df))

Doubled(avg_volume) == IF avg_volume = NaN THEN NaN ELSE QMul(avg_volume, QInt(2))

(* Mutant: the detector without its test of the length of the series.      *)
detect_breakouts_of_any_length(df, period) ==
    LET previous_high == RollingMax(df, "high", period, Len(df) - 1)
        avg_volume    == calculate_average_volume(df, period)
        last          == df[Len(df)]
    IN  /\ Gt(last.high, previous_high)
        /\ Gt(last.close, previous_high)
        /\ Gt(last.volume, Doubled(avg_volume))

detect_breakouts(df, period) ==
    IF Len(df) < period + 5 THEN FALSE
    ELSE LET previous_high  == RollingMax(df, "high", period, Len(df) - 1)
             avg_volume     == calculate_average_volume(df, period)
             current_price  == df[Len(df)].close
             current_high   == df[Len(df)].high
             current_volume == df[Len(df)].volume
             volume_surge   == Gt(current_volume, Doubled(avg_volume))
             price_breakout == /\ Gt(current_high, previous_high)
                               /\ Gt(current_price, previous_high)
         IN  price_breakout /\ volume_surge

detect_breakdown(df, period) ==
    IF Len(df) < period + 5 THEN FALSE
    ELSE LET previous_low    == RollingMin(df, "low", period, Len(df) - 1)
             avg_volume      == calculate_average_volume(df, period)
             current_price   == df[Len(df)].close
             current_low     == df[Len(df)].low
             current_volume  == df[Len(df)].volume
             volume_surge    == Gt(current_volume, Doubled(avg_volume))
             price_breakdown == /\ Gt(previous_low, current_low)
                                /\ Gt(previous_low, current_price)
         IN  price_breakdown /\ volume_surge

(* The series the detectors are run on: a flat series of 4, 5 or 24 bars   *)
(* (high, low and close 100, volume 1000) followed by up to MaxNewBars     *)
(* bars of any shape and volume.  With period 3 the new bars fill the      *)
(* whole window; with period 20 the window is flat but for its end.        *)
MaxNewBars == 3

Periods == {3, 20}

FlatLengths == {4, 5, 24}

Volumes == {QInt(500), QInt(1000), QInt(3000)}

Shapes ==
    { [high |-> QInt(100), low |-> QInt(100), close |-> QInt(100)],
      [high |-> QInt(105), low |-> QInt(100), close |-> Q(209, 2)],
      [high |-> QInt(105), low |-> QInt(100), close |-> QInt(100)],
      [high |-> QInt(100), low |-> QInt(95),  close |-> Q(191, 2)],
      [high |-> QInt(100), low |-> QInt(95),  close |-> QInt(100)] }

Bars ==
    { [high |-> shape.high, low |-> shape.low, close |-> shape.close,
       volume |-> volume] : shape \in Shapes, volume \in Volumes }

FlatBar ==
    [high |-> QInt(100), low |-> QInt(100), close |-> QInt(100),
     volume |-> QInt(1000)]

FlatSeries(n) == [i \in 1..n |-> FlatBar]

InitDetect ==
    /\ cash = QInt(STARTING_CAPITAL)
    /\ positions = << >>
    /\ trailing_stops = << >>
    /\ daily_pl = QInt(0)
    /\ starting_day_value = QInt(STARTING_CAPITAL)
    /\ ledger = << >>
    /\ pc = "idle"
    /\ \E n \in FlatLengths, period \in Periods :
          call = [op |-> "get_bars", df |-> FlatSeries(n), period |-> period,
                  new |-> 0]

(* api.get_bars returns the series with one more bar.                      *)
GetBars ==
    /\ call.new < MaxNewBars
    /\ \E bar \in Bars :
          call' = [op |-> "get_bars", df |-> Append(call.df, bar),
                   period |-> call.period, new |-> call.new + 1]
    /\ UNCHANGED <<State, pc>>

DetectBreakouts ==
    /\ call.op = "get_bars"
    /\ call' = [op |-> "detect_breakouts", df |-> call.df,
                period |-> call.period, new |-> call.new,
                ret |-> detect_breakouts(call.df, call.period)]
    /\ UNCHANGED <<State, pc>>

DetectBreakdown ==
    /\ call.op = "get_bars"
    /\ call' = [op |-> "detect_breakdown", df |-> call.df,
                period |-> call.period, new |-> call.new,
                ret |-> detect_breakdown(call.df, call.period)]
    /\ UNCHANGED <<State, pc>>

NextDetect ==
    \/ GetBars
    \/ DetectBreakouts
    \/ DetectBreakdown

SpecDetect == InitDetect /\ [][NextDetect]_vars

---------------------------------------------------------------------------
(* Properties of the detectors under SpecDetect.                           *)

Detected == call.op \in {"detect_breakouts", "detect_breakdown"}

LastBar == call.df[Len(call.df)]

(* The bars before the last one that the claim's window holds.             *)
PrecedingBars == (Len(call.df) - call.period)..(Len(call.df) - 1)

(* The largest high of the period bars preceding the last bar.             *)
PriorHigh ==
    LET highs == {call.df[i].high : i \in PrecedingBars}
    IN  CHOOSE h \in highs : \A other \in highs : QLe(other, h)

(* The mean volume of the period bars that end with the last bar.          *)
AverageVolume ==
    QDiv(WindowSum(call.df, "volume", Len(call.df) - call.period + 1,
                   Len(call.df)),
         QInt(call.period))

(* C19: for a series of fewer than period + 5 bars detect_breakouts and    *)
(* detect_breakdown return False, whatever the bars are.                   *)
ShortSeriesGiveFalse ==
    Detected /\ Len(call.df) < call.period + 5 => call.ret = FALSE

(* A series one bar short of period + 5 whose last bar stands above every  *)
(* earlier high on three times the volume of the bars before it, and for   *)
(* which detect_breakouts answered False.                                  *)
ShortSeriesWitness ==
    /\ call.op = "detect_breakouts"
    /\ call.period = 3
    /\ Len(call.df) = call.period + 4
    /\ \A i \in 1..(Len(call.df) - 1) :
          /\ QLt(call.df[i].high, LastBar.high)
          /\ QLt(call.df[i].high, LastBar.close)
    /\ QLt(QMul(QInt(2), AverageVolume), LastBar.volume)
    /\ call.ret = FALSE

(* C20: for a series of at least period + 5 bars detect_breakouts returns  *)
(* True exactly when the last bar's high and close are both strictly above *)
(* the largest high of the period bars preceding it and its volume is      *)
(* strictly above twice the period-bar average volume.                     *)
BreakoutIffHighCloseAndVolume ==
    call.op = "detect_breakouts" /\ Len(call.df) >= call.period + 5 =>
       (call.ret <=> /\ QLt(PriorHigh, LastBar.high)
                     /\ QLt(PriorHigh, LastBar.close)
                     /\ QLt(QMul(QInt(2), AverageVolume), LastBar.volume))

(* The scenario of C20: 25 bars with a flat high of 100, the last bar with *)
(* high 105, close 104.5 and three times the volume of the others; the     *)
(* detector with period 20 answers True.                                   *)
BreakoutScenario ==
    /\ call.op = "detect_breakouts"
    /\ call.period = 20
    /\ Len(call.df) = 25
    /\ \A i \in 1..24 : call.df[i].high = QInt(100) /\ call.df[i].volume = QInt(1000)
    /\ LastBar.high = QInt(105)
    /\ LastBar.close = Q(209, 2)
    /\ LastBar.volume = QInt(3000)
    /\ call.ret = TRUE

---------------------------------------------------------------------------
(* Capital accounting and the two per-symbol maps under Spec.              *)

RECURSIVE CostBasis(_)
CostBasis(ps) ==
    IF ps = << >> THEN QInt(0)
    ELSE QAdd(QMul(Head(ps).shares, Head(ps).entry_price), CostBasis(Tail(ps)))

(* C29: cash plus the cost basis of the open positions equals              *)
(* STARTING_CAPITAL plus the sum of the realized pnl recorded so far,      *)
(* whatever share count execute_sell is given.                             *)
CapitalConserved ==
    QAdd(cash, CostBasis(positions))
       = QAdd(QInt(STARTING_CAPITAL), SumOver(ledger, "pnl"))

(* C30: every symbol with an entry in trailing_stops has an open position. *)
TrailingStopsHavePositions ==
    \A symbol \in DOMAIN trailing_stops : HasPosition(positions, symbol)

(* A breakout position that had its trailing stop and was closed, by a     *)
(* cycle or by a direct sell, leaving both maps without the symbol.        *)
StopRemovedWithPosition ==
    /\ Len(ledger) = 2
    /\ ledger[1].action = <<"BUY">>
    /\ ledger[1].strategy = "breakout"
    /\ ledger[2].action[1] = "SELL"
    /\ ledger[2].symbol = ledger[1].symbol
    /\ ~HasPosition(positions, ledger[1].symbol)
    /\ ledger[1].symbol \notin DOMAIN trailing_stops

---------------------------------------------------------------------------
(* breakout.py: analyze_breakout_quality.  Here a DataFrame is a record of *)
(* its set of columns and its rows; reading a column it does not have      *)
(* raises KeyError, and the last row of an empty frame raises IndexError.  *)
(* A factor of a score is Points(n), the points it adds, or Raises.         *)

Raises == [raised |-> TRUE, points |-> 0]

Points(n) == [raised |-> FALSE, points |-> n]

Between(low, x, high) == x # NaN /\ QLe(low, x) /\ QLe(x, high)

Ge(a, b) == a # NaN /\ b # NaN /\ QLe(b, a)

(* 1. RSI momentum.  rsi is what calculate_rsi handed back: a number, NaN  *)
(* or None, and comparing None with a number raises TypeError.             *)
RsiMomentum(rsi) ==
    IF rsi = None THEN Raises
    ELSE IF Between(QInt(60), rsi, QInt(80)) THEN Points(25)
    ELSE IF Gt(rsi, QInt(80)) THEN Points(10)
    ELSE IF Ge(rsi, QInt(50)) THEN Points(15)
    ELSE Points(0)

(* latest_volume / avg_volume in numpy: 0 / 0 and anything with NaN is NaN. *)
VolumeRatio(latest_volume, avg_volume) ==
    IF avg_volume = NaN \/ avg_volume = QInt(0) THEN NaN
    ELSE QDiv(latest_volume, avg_volume)

VolumeTier(volume_ratio) ==
    IF Ge(volume_ratio, QInt(3)) THEN Points(25)
    ELSE IF Ge(volume_ratio, QInt(2)) THEN Points(20)
    ELSE IF Ge(volume_ratio, Q(3, 2)) THEN Points(15)
    ELSE IF Ge(volume_ratio, QInt(1)) THEN Points(10)
    ELSE Points(0)

(* 2. Volume confirmation, with calculate_average_volume at its default    *)
(* period.                                                                 *)
VolumeConfirmation(df) ==
    IF "volume" \notin df.columns \/ df.rows = << >> THEN Raises
    ELSE VolumeTier(VolumeRatio(df.rows[Len(df.rows)].volume,
                                calculate_average_volume(df.rows, 20)))

(* 3. Price action of the last candle.                                     *)
PriceAction(df) ==
    IF ~({"open", "high", "low", "close"} \subseteq df.columns) THEN Raises
    ELSE IF df.rows = << >> THEN Raises
    ELSE LET latest           == df.rows[Len(df.rows)]
             candle_range     == QSub(latest.high, latest.low)
             upper_wick_ratio ==
                 IF candle_range = QInt(0) THEN QInt(0)
                 ELSE QDiv(QSub(latest.high, QMax(latest.open, latest.close)),
                           candle_range)
         IN  IF QLt(latest.open, latest.close) /\ QLt(upper_wick_ratio, Q(2, 10))
             THEN Points(25)
             ELSE IF QLt(latest.open, latest.close) THEN Points(15)
             ELSE IF latest.close = latest.open THEN Points(5)
             ELSE Points(0)

(* 4. Volatility boost.                                                    *)
VolatilityBoost(volatility) ==
    IF volatility = None THEN Raises
    ELSE IF Between(Q(5, 10), volatility, QInt(2)) THEN Points(15)
    ELSE IF Gt(volatility, QInt(2)) /\ Ge(QInt(4), volatility) THEN Points(10)
    ELSE IF Gt(volatility, QInt(4)) THEN Points(5)
    ELSE Points(0)

(* The column n_period_high that detect_breakouts leaves in the frame, at  *)
(* the last row.                                                           *)
PeriodHigh(df) == RollingMax(df.rows, "high", 20, Len(df.rows) - 1)

(* sum((high.shift(1) > period_high * 0.98) & (high.shift(1) < ... * 1.02)) *)
PreviousTestsCount(df) ==
    LET period_high == PeriodHigh(df)
    IN  IF period_high = NaN THEN 0
        ELSE Cardinality({i \in 1..(Len(df.rows) - 1) :
                 /\ QLt(QMul(period_high, Q(98, 100)), df.rows[i].high)
                 /\ QLt(df.rows[i].high, QMul(period_high, Q(102, 100)))})

(* 5. Previous attempts at the level.                                      *)
PreviousAttempts(df) ==
    IF "n_period_high" \notin df.columns THEN Points(0)
    ELSE IF PreviousTestsCount(df) >= 3 THEN Points(10)
    ELSE IF PreviousTestsCount(df) >= 1 THEN Points(5)
    ELSE Points(0)

(* The score the try block has reached when it ends: the factors are added *)
(* in order and the first one that raises ends the block.                  *)
RECURSIVE ScoreUntilRaise(_)
ScoreUntilRaise(factors) ==
    IF factors = << >> THEN 0
    ELSE IF Head(factors).raised THEN 0
    ELSE Head(factors).points + ScoreUntilRaise(Tail(factors))

Capped(score) == IF score < 100 THEN score ELSE 100

BreakoutFactors(df, rsi, volatility) ==
    << RsiMomentum(rsi), VolumeConfirmation(df), PriceAction(df),
       VolatilityBoost(volatility), PreviousAttempts(df) >>

analyze_breakout_quality(df, rsi, volatility) ==
    Capped(ScoreUntilRaise(BreakoutFactors(df, rsi, volatility)))

---------------------------------------------------------------------------
(* mean_reversion.py: the Bollinger columns and get_mean_reversion_score.  *)
(* The columns that calculate_bollinger_bands and                          *)
(* calculate_mean_reversion_metrics add to the frame are computed here row *)
(* by row.  The standard deviation is kept as its square, the sample       *)
(* variance, and every comparison that involves it is made on squares.     *)
(* df.ta_rsi is what pandas_ta's rsi gives for the last row: a number,     *)
(* NaN, None (too few bars), or Missing when the call raised and left no   *)
(* rsi column.                                                             *)

Missing == <<"missing">>

Squared(x) == QMul(x, x)

(* df['close'].rolling(window).mean() at row i.                            *)
MiddleBand(df, window, i) == RollingMean(df.rows, "close", window, i)

RECURSIVE SquaredDeviations(_, _, _, _)
SquaredDeviations(rows, mean, from, to) ==
    IF from > to THEN QInt(0)
    ELSE QAdd(Squared(QSub(rows[from].close, mean)),
              SquaredDeviations(rows, mean, from + 1, to))

(* The square of df['close'].rolling(window).std() at row i (ddof = 1).    *)
RollingVariance(df, window, i) ==
    IF i < window \/ i > Len(df.rows) \/ window < 2 THEN NaN
    ELSE QDiv(SquaredDeviations(df.rows, MiddleBand(df, window, i),
                                i - window + 1, i),
              QInt(window - 1))

(* close <= lower_band at row i, with lower_band = middle - num_std * std: *)
(* the close is below the middle by at least num_std deviations.           *)
AtOrBelowLowerBand(df, window, num_std, i) ==
    LET middle   == MiddleBand(df, window, i)
        variance == RollingVariance(df, window, i)
        below    == QSub(middle, df.rows[i].close)
    IN  /\ middle # NaN
        /\ variance # NaN
        /\ QLe(QInt(0), below)
        /\ QLe(QMul(Squared(num_std), variance), Squared(below))

(* (close - middle_band) / middle_band * 100                               *)
PctDeviation(df, window, i) ==
    LET middle == MiddleBand(df, window, i)
    IN  IF middle = NaN \/ middle = QInt(0) THEN NaN
        ELSE QMul(QDiv(QSub(df.rows[i].close, middle), middle), QInt(100))

(* z_score at row i, (close - middle) / std, as the pair of its numerator  *)
(* and the variance; NaN where the band is missing or the deviation is 0.  *)
ZScore(df, window, i) ==
    LET middle   == MiddleBand(df, window, i)
        variance == RollingVariance(df, window, i)
    IN  IF middle = NaN \/ middle = QInt(0) \/ variance = NaN
           \/ variance = QInt(0)
        THEN NaN
        ELSE << QSub(df.rows[i].close, middle), variance >>

(* z1 <= z2.                                                               *)
ZLe(z1, z2) ==
    /\ z1 # NaN
    /\ z2 # NaN
    /\ LET above1 == z1[1]
           above2 == z2[1]
           s1     == QDiv(Squared(above1), z1[2])
           s2     == QDiv(Squared(above2), z2[2])
       IN  IF QLe(above1, QInt(0)) /\ QLe(QInt(0), above2) THEN TRUE
           ELSE IF QLt(QInt(0), above1) /\ QLt(above2, QInt(0)) THEN FALSE
           ELSE IF QLe(QInt(0), above1) THEN QLe(s1, s2)
           ELSE QLe(s2, s1)

Le(a, b) == a # NaN /\ b # NaN /\ QLe(a, b)

(* 1. Deviation from the mean.  Without a close column neither helper adds *)
(* its columns and reading pct_deviation raises KeyError.                  *)
DeviationFromMean(df, window) ==
    IF "close" \notin df.columns THEN Raises
    ELSE LET pct_deviation == PctDeviation(df, window, Len(df.rows))
         IN  IF Le(pct_deviation, QInt(-5)) THEN Points(30)
             ELSE IF Le(pct_deviation, QInt(-4)) THEN Points(25)
             ELSE IF Le(pct_deviation, QInt(-3)) THEN Points(20)
             ELSE IF Le(pct_deviation, QInt(-2)) THEN Points(15)
             ELSE IF Le(pct_deviation, QInt(-1)) THEN Points(10)
             ELSE Points(0)

(* 2. RSI condition; 50 stands in for a missing rsi column.                *)
RsiCondition(df) ==
    LET rsi == IF df.ta_rsi = Missing THEN QInt(50) ELSE df.ta_rsi
    IN  IF rsi = None THEN Raises
        ELSE IF Le(rsi, QInt(20)) THEN Points(25)
        ELSE IF Le(rsi, QInt(25)) THEN Points(20)
        ELSE IF Le(rsi, QInt(30)) THEN Points(15)
        ELSE IF Le(rsi, QInt(35)) THEN Points(10)
        ELSE IF Le(rsi, QInt(40)) THEN Points(5)
        ELSE Points(0)

(* 3. Bouncing off support.  When prev2 closed at or below its lower band  *)
(* the condition goes on to prev1['close'].shift(1); prev1['close'] is a   *)
(* number, which has no shift, and AttributeError is raised.               *)
BouncingOffSupport(df, window) ==
    LET n == Len(df.rows)
    IN  IF n < 3 THEN Points(0)
        ELSE IF AtOrBelowLowerBand(df, window, QInt(2), n - 2) THEN Raises
        ELSE IF /\ AtOrBelowLowerBand(df, window, QInt(2), n - 1)
                /\ QLt(df.rows[n - 1].close, df.rows[n].close)
        THEN Points(10)
        ELSE Points(0)

(* 4. Volume confirmation.                                                 *)
MeanReversionVolume(df, window) ==
    IF "volume" \notin df.columns THEN Points(0)
    ELSE LET avg_vol     == RollingMean(df.rows, "volume", window, Len(df.rows))
             current_vol == df.rows[Len(df.rows)].volume
             vol_ratio   == IF Gt(avg_vol, QInt(0))
                            THEN QDiv(current_vol, avg_vol)
                            ELSE QInt(1)
         IN  IF Ge(vol_ratio, QInt(2)) THEN Points(15)
             ELSE IF Ge(vol_ratio, Q(3, 2)) THEN Points(10)
             ELSE IF Ge(vol_ratio, QInt(1)) THEN Points(5)
             ELSE Points(0)

(* The rows whose z_score is at most the last row's; the rows before the   *)
(* window is full have no z_score.                                         *)
HistoricalInstances(df, window) ==
    LET z_score == ZScore(df, window, Len(df.rows))
    IN  IF z_score = NaN THEN {}
        ELSE {i \in window..Len(df.rows) : ZLe(ZScore(df, window, i), z_score)}

(* The close came back to the middle band within the next 20 rows.         *)
ReturnedToMean(df, window, i) ==
    LET forward_window == IF Len(df.rows) - i < 20 THEN Len(df.rows) - i ELSE 20
    IN  \E j \in (i + 1)..(i + forward_window) :
           Ge(df.rows[j].close, MiddleBand(df, window, j))

(* 5. Historical mean reversion success.                                   *)
HistoricalSuccess(df, window) ==
    LET historical_instances == HistoricalInstances(df, window)
        success_count ==
            Cardinality({i \in historical_instances :
                            ReturnedToMean(df, window, i)})
        success_rate ==
            IF historical_instances # {}
            THEN Q(success_count, Cardinality(historical_instances))
            ELSE QInt(0)
    IN  IF QLe(Q(8, 10), success_rate) THEN Points(15)
        ELSE IF QLe(Q(6, 10), success_rate) THEN Points(10)
        ELSE IF QLe(Q(4, 10), success_rate) THEN Points(5)
        ELSE Points(0)

MeanReversionFactors(df, window) ==
    << DeviationFromMean(df, window), RsiCondition(df),
       BouncingOffSupport(df, window), MeanReversionVolume(df, window),
       HistoricalSuccess(df, window) >>

RECURSIVE AnyRaises(_)
AnyRaises(factors) ==
    IF factors = << >> THEN FALSE
    ELSE Head(factors).raised \/ AnyRaises(Tail(factors))

(* Mutant: the except branch hands back -1 to tell a failure from a score  *)
(* of 0.                                                                   *)
get_mean_reversion_score_flagging_errors(df, window) ==
    IF Len(df.rows) < window THEN 0
    ELSE LET factors == MeanReversionFactors(df, window)
         IN  IF AnyRaises(factors) THEN 0 - 1
             ELSE Capped(ScoreUntilRaise(factors))

get_mean_reversion_score(df, window) ==
    IF Len(df.rows) < window THEN 0
    ELSE LET factors == MeanReversionFactors(df, window)
         IN  IF AnyRaises(factors) THEN 0
             ELSE Capped(ScoreUntilRaise(factors))

---------------------------------------------------------------------------
(* The two quality scorers run on frames of candles: 5 or 24 quiet candles *)
(* whose close alternates between 100 and 101, followed by up to           *)
(* MaxNewCandles candles of the kinds below, with all the columns, with    *)
(* the n_period_high column of detect_breakouts added, or with one of      *)
(* volume, open and close missing.  get_mean_reversion_score is given a    *)
(* window of 6 rows.                                                       *)

MaxNewCandles == 3

QuietLengths == {5, 24}

ScoreWindows == {6}

Candle(open, high, low, close, volume) ==
    [open |-> open, high |-> high, low |-> low, close |-> close,
     volume |-> QInt(volume)]

QuietCandle(k) ==
    LET price == QInt(100 + (k % 2))
    IN  Candle(price, price, price, price, 1000)

QuietRows(n) == [k \in 1..n |-> QuietCandle(k)]

Candles ==
    { Candle(QInt(100), QInt(105), QInt(100), Q(209, 2), 4000),
      Candle(QInt(100), QInt(105), QInt(100), QInt(104), 2000),
      Candle(QInt(100), QInt(100), QInt(100), QInt(100), 1000),
      Candle(QInt(100), QInt(100), QInt(90),  QInt(90),  3000),
      Candle(QInt(90),  QInt(97),  QInt(90),  QInt(97),  1000),
      Candle(QInt(100), QInt(101), QInt(100), QInt(101), 500) }

AllColumns == {"open", "high", "low", "close", "volume"}

ColumnSets ==
    { AllColumns, AllColumns \cup {"n_period_high"},
      AllColumns \ {"volume"}, AllColumns \ {"open"}, AllColumns \ {"close"} }

RsiArguments == {None, QInt(49), QInt(50), QInt(60), QInt(81)}

VolatilityArguments == {None, Q(4, 10), QInt(2), QInt(4), QInt(5)}

TaRsiValues == {Missing, None, NaN, QInt(20), QInt(30), QInt(40)}

InitScore ==
    /\ cash = QInt(STARTING_CAPITAL)
    /\ positions = << >>
    /\ trailing_stops = << >>
    /\ daily_pl = QInt(0)
    /\ starting_day_value = QInt(STARTING_CAPITAL)
    /\ ledger = << >>
    /\ pc = "idle"
    /\ \E n \in QuietLengths, columns \in ColumnSets :
          call = [op |-> "get_bars",
                  df |-> [columns |-> columns, rows |-> QuietRows(n),
                          ta_rsi |-> Missing],
                  new |-> 0]

(* api.get_bars returns the frame with one more candle.                    *)
GetCandles ==
    /\ call.new < MaxNewCandles
    /\ \E candle \in Candles :
          call' = [op |-> "get_bars",
                   df |-> [call.df EXCEPT !.rows = Append(@, candle),
                                          !.ta_rsi = Missing],
                   new |-> call.new + 1]
    /\ UNCHANGED <<State, pc>>

AnalyzeBreakoutQuality ==
    /\ call.op = "get_bars"
    /\ \E rsi \in RsiArguments, volatility \in VolatilityArguments :
          call' = [op |-> "analyze_breakout_quality", df |-> call.df,
                   new |-> call.new, rsi |-> rsi, volatility |-> volatility,
                   ret |-> analyze_breakout_quality(call.df, rsi, volatility)]
    /\ UNCHANGED <<State, pc>>

GetMeanReversionScore ==
    /\ call.op = "get_bars"
    /\ \E window \in ScoreWindows, ta_rsi \in TaRsiValues :
          LET df == [call.df EXCEPT !.ta_rsi = ta_rsi]
          IN  call' = [op |-> "get_mean_reversion_score", df |-> df,
                       new |-> call.new, window |-> window,
                       ret |-> get_mean_reversion_score(df, window)]
    /\ UNCHANGED <<State, pc>>

NextScore ==
    \/ GetCandles
    \/ AnalyzeBreakoutQuality
    \/ GetMeanReversionScore

SpecScore == InitScore /\ [][NextScore]_vars

---------------------------------------------------------------------------
(* Properties of the two scorers under SpecScore.                          *)

Scored == call.op \in {"analyze_breakout_quality", "get_mean_reversion_score"}

(* C21: the score that analyze_breakout_quality or                         *)
(* get_mean_reversion_score returns is between 0 and 100 inclusive, on     *)
(* every path, the exception paths included.                               *)
ScoresWithinBounds ==
    Scored => call.ret \in 0..100

(* analyze_breakout_quality left its try block at the volume factor, for  *)
(* want of a volume column, and returned the 25 points of the RSI factor.  *)
ScoreOnExceptionPath ==
    /\ call.op = "analyze_breakout_quality"
    /\ "volume" \notin call.df.columns
    /\ call.rsi = QInt(60)
    /\ call.ret = 25

(* The points of the factors that did not fail, failing ones left out.     *)
RECURSIVE PointsOfUnfailed(_)
PointsOfUnfailed(factors) ==
    IF factors = << >> THEN 0
    ELSE (IF Head(factors).raised THEN 0 ELSE Head(factors).points)
            + PointsOfUnfailed(Tail(factors))

(* The factors of the call that call records.                              *)
FactorsOfCall ==
    IF call.op = "analyze_breakout_quality"
    THEN BreakoutFactors(call.df, call.rsi, call.volatility)
    ELSE MeanReversionFactors(call.df, call.window)

(* C22: in both scorers a factor that fails is the only one skipped: the   *)
(* score returned is the sum, capped at 100, of the points of every factor *)
(* that did not fail, those after the failing one included.                *)
OnlyFailingFactorSkipped ==
    /\ call.op = "analyze_breakout_quality" =>
          call.ret = Capped(PointsOfUnfailed(FactorsOfCall))
    /\ call.op = "get_mean_reversion_score"
          /\ Len(call.df.rows) >= call.window =>
          call.ret = Capped(PointsOfUnfailed(FactorsOfCall))

(* The window of three closes that the bounce factor looks at: the bar two *)
(* back closed at or below its lower band and each of the next two closes  *)
(* is above the one before it.                                             *)
FullBounce ==
    LET n == Len(call.df.rows)
    IN  /\ n >= call.window + 2
        /\ AtOrBelowLowerBand(call.df, call.window, QInt(2), n - 2)
        /\ QLt(call.df.rows[n - 2].close, call.df.rows[n - 1].close)
        /\ QLt(call.df.rows[n - 1].close, call.df.rows[n].close)

(* The points of the four factors other than the bounce factor.            *)
PointsOfOtherFour ==
    LET factors == MeanReversionFactors(call.df, call.window)
    IN  factors[1].points + factors[2].points + factors[4].points
           + factors[5].points

(* C23: on a full bounce get_mean_reversion_score returns a score that     *)
(* holds the 15 points of the bounce together with the points of the other *)
(* four factors.                                                           *)
FullBounceAddsFifteen ==
    /\ call.op = "get_mean_reversion_score"
    /\ FullBounce
    /\ call.df.columns = AllColumns
    /\ call.df.ta_rsi \notin {None, Missing, NaN}
    => call.ret = Capped(15 + PointsOfOtherFour)

---------------------------------------------------------------------------
(* The candidate scanners of breakout.py and mean_reversion.py.  What the  *)
(* body of the loop meets for one symbol is given with the symbol:         *)
(* api.get_bars raises, or it returns bars of some length whose analysis   *)
(* raises, finds the price away from the reference level, or finds it near *)
(* and scores it.                                                          *)

MaxSymbols == 3

ScanSymbols == <<"AAPL", "NVDA", "TSLA", "MSFT">>

BarCounts == {24, 25, 29, 30}

ScanScores == {10, 90}

Met ==
    {[fetch |-> "raises"]}
    \cup [fetch : {"bars"}, bars : BarCounts, analysis : {"raises", "far"}]
    \cup [fetch : {"bars"}, bars : BarCounts, analysis : {"near"},
          score : ScanScores]

(* candidates.sort(key=score, reverse=True): descending, and stable.       *)
RECURSIVE InsertByScore(_, _)
InsertByScore(candidate, sorted) ==
    IF sorted = << >> THEN << candidate >>
    ELSE IF Head(sorted).score >= candidate.score
    THEN << Head(sorted) >> \o InsertByScore(candidate, Tail(sorted))
    ELSE << candidate >> \o sorted

RECURSIVE SortByScore(_)
SortByScore(candidates) ==
    IF candidates = << >> THEN << >>
    ELSE InsertByScore(candidates[1],
                       SortByScore(SubSeq(candidates, 2, Len(candidates))))

(* One pass of the loop body for a symbol: the candidates after it.        *)
ScanSymbol(candidates, symbol, met, min_bars) ==
    IF met.fetch = "raises" THEN candidates
    ELSE IF met.bars < min_bars THEN candidates
    ELSE IF met.analysis = "raises" THEN candidates
    ELSE IF met.analysis = "far" THEN candidates
    ELSE Append(candidates, [symbol |-> symbol, score |-> met.score])

(* Mutant: the try block is around the loop, so the first failure ends the *)
(* scan.                                                                   *)
RECURSIVE ScanLoopEndingOnFailure(_, _, _, _)
ScanLoopEndingOnFailure(candidates, symbols, met, min_bars) ==
    IF symbols = << >> THEN candidates
    ELSE IF met[1].fetch = "raises" THEN candidates
    ELSE IF met[1].bars >= min_bars /\ met[1].analysis = "raises" THEN candidates
    ELSE ScanLoopEndingOnFailure(
             ScanSymbol(candidates, Head(symbols), met[1], min_bars),
             Tail(symbols), Tail(met), min_bars)

RECURSIVE ScanLoop(_, _, _, _)
ScanLoop(candidates, symbols, met, min_bars) ==
    IF symbols = << >> THEN candidates
    ELSE ScanLoop(ScanSymbol(candidates, Head(symbols), met[1], min_bars),
                  Tail(symbols), Tail(met), min_bars)

(* if len(bars) < 30: continue                                             *)
scan_for_breakout_candidates(symbols, met) ==
    SortByScore(ScanLoop(<< >>, symbols, met, 30))

(* if len(bars) < window + 5: continue                                     *)
scan_for_mean_reversion_candidates(symbols, met, window) ==
    SortByScore(ScanLoop(<< >>, symbols, met, window + 5))

InitScan ==
    /\ cash = QInt(STARTING_CAPITAL)
    /\ positions = << >>
    /\ trailing_stops = << >>
    /\ daily_pl = QInt(0)
    /\ starting_day_value = QInt(STARTING_CAPITAL)
    /\ ledger = << >>
    /\ pc = "idle"
    /\ call = [op |-> "symbols", symbols |-> << >>, met |-> << >>]

(* The caller's list grows by one symbol, with what the loop will meet.    *)
AddSymbol ==
    /\ call.op = "symbols"
    /\ Len(call.symbols) < MaxSymbols
    /\ \E met \in Met :
          call' = [op |-> "symbols",
                   symbols |-> Append(call.symbols,
                                      ScanSymbols[Len(call.symbols) + 1]),
                   met |-> Append(call.met, met)]
    /\ UNCHANGED <<State, pc>>

ScanForBreakoutCandidates ==
    /\ call.op = "symbols"
    /\ call' = [op |-> "scan_for_breakout_candidates",
                symbols |-> call.symbols, met |-> call.met, min_bars |-> 30,
                ret |-> scan_for_breakout_candidates(call.symbols, call.met)]
    /\ UNCHANGED <<State, pc>>

ScanForMeanReversionCandidates ==
    /\ call.op = "symbols"
    /\ call' = [op |-> "scan_for_mean_reversion_candidates",
                symbols |-> call.symbols, met |-> call.met, min_bars |-> 25,
                ret |-> scan_for_mean_reversion_candidates(
                            call.symbols, call.met, 20)]
    /\ UNCHANGED <<State, pc>>

NextScan ==
    \/ AddSymbol
    \/ ScanForBreakoutCandidates
    \/ ScanForMeanReversionCandidates

SpecScan == InitScan /\ [][NextScan]_vars

---------------------------------------------------------------------------
(* Properties of the scanners under SpecScan.                              *)

Scanned ==
    call.op \in {"scan_for_breakout_candidates",
                 "scan_for_mean_reversion_candidates"}

(* The positions in the symbol list of the symbols that are to be          *)
(* admitted: fetched, long enough, analysed and near.                      *)
Admitted ==
    {k \in 1..Len(call.symbols) :
        /\ call.met[k].fetch = "bars"
        /\ call.met[k].bars >= call.min_bars
        /\ call.met[k].analysis = "near"}

(* C24: a scanner skips the symbols whose fetch or analysis fails and      *)
(* still evaluates every later symbol: it returns exactly the admitted     *)
(* candidates, once each with their scores, in descending order of score.  *)
ScanSkipsFailuresAndSorts ==
    Scanned =>
       /\ Len(call.ret) = Cardinality(Admitted)
       /\ \A k \in Admitted :
             \E j \in 1..Len(call.ret) :
                call.ret[j] = [symbol |-> call.symbols[k],
                               score |-> call.met[k].score]
       /\ \A j \in 1..(Len(call.ret) - 1) :
             call.ret[j].score >= call.ret[j + 1].score

(* A scan whose first symbol failed to fetch and whose second failed in    *)
(* analysis, and which admitted the third.                                 *)
ScanPastFailures ==
    /\ call.op = "scan_for_breakout_candidates"
    /\ Len(call.symbols) = 3
    /\ call.met[1].fetch = "raises"
    /\ call.met[2].fetch = "bars"
    /\ call.met[2].bars >= 30
    /\ call.met[2].analysis = "raises"
    /\ call.ret = << [symbol |-> "TSLA", score |-> 90] >>

---------------------------------------------------------------------------
(* breakout.py: the four indicator functions as their caller sees them:    *)
(* the value handed back, or an exception that left the function.  The     *)
(* frame df has columns and rows; what pandas_ta computes for the last row *)
(* is given with the call: a number, NaN, None, or the library raising.    *)

Returned(value) == [raised |-> FALSE, value |-> value]

Raised == [raised |-> TRUE, value |-> None]

LibraryRaises == <<"raises">>

(* try: df['rsi'] = ta.rsi(df['close'], ...); return df['rsi'].iloc[-1]    *)
(* except: return 50.  iloc[-1] of a frame without rows raises IndexError. *)
IndicatorRsi(df, period, ta_rsi) ==
    IF "close" \notin df.columns THEN Returned(QInt(50))
    ELSE IF ta_rsi = LibraryRaises THEN Returned(QInt(50))
    ELSE IF df.rows = << >> THEN Returned(QInt(50))
    ELSE Returned(ta_rsi)

(* (df['high'] - df['low']).tail(period).mean()                            *)
MeanRange(df, period) ==
    LET n     == Len(df.rows)
        first == IF n > period THEN n - period + 1 ELSE 1
    IN  IF n = 0 \/ period < 1 THEN NaN
        ELSE QDiv(QSub(WindowSum(df.rows, "high", first, n),
                       WindowSum(df.rows, "low", first, n)),
                  QInt(n - first + 1))

(* The handler of calculate_atr reads df['high'] and df['low'] again.      *)
IndicatorAtr(df, period, ta_atr) ==
    IF /\ {"high", "low", "close"} \subseteq df.columns
       /\ ta_atr # LibraryRaises
       /\ df.rows # << >>
    THEN Returned(ta_atr)
    ELSE IF ~ ({"high", "low"} \subseteq df.columns) THEN Raised
    ELSE Returned(MeanRange(df, period))

(* The handler of calculate_average_volume reads df['volume'] again; the   *)
(* mean of no rows is NaN.                                                 *)
IndicatorAverageVolume(df, period) ==
    IF "volume" \notin df.columns THEN Raised
    ELSE IF df.rows = << >> THEN Returned(NaN)
    ELSE Returned(calculate_average_volume(df.rows, period))

(* df['close'].pct_change() at row i > 1.                                  *)
PctChange(rows, i) == QSub(QDiv(rows[i].close, rows[i - 1].close), QInt(1))

RECURSIVE SumOfChanges(_, _, _)
SumOfChanges(rows, from, to) ==
    IF from > to THEN QInt(0)
    ELSE QAdd(PctChange(rows, from), SumOfChanges(rows, from + 1, to))

RECURSIVE SquaredChangeDeviations(_, _, _, _)
SquaredChangeDeviations(rows, mean, from, to) ==
    IF from > to THEN QInt(0)
    ELSE QAdd(Squared(QSub(PctChange(rows, from), mean)),
              SquaredChangeDeviations(rows, mean, from + 1, to))

(* The square of .pct_change().rolling(window=period).std().iloc[-1]: the  *)
(* first change is NaN, so the window is full from row period + 1 on.      *)
VarianceOfChanges(rows, period) ==
    LET n    == Len(rows)
        from == n - period + 1
        mean == QDiv(SumOfChanges(rows, from, n), QInt(period))
    IN  IF n < period + 1 \/ period < 2 THEN NaN
        ELSE QDiv(SquaredChangeDeviations(rows, mean, from, n),
                  QInt(period - 1))

(* The deviation times 100, kept as its square.                            *)
PercentOfRoot(variance) ==
    IF variance = NaN THEN NaN ELSE <<"100*sqrt", variance>>

IndicatorVolatility(df, period) ==
    IF "close" \notin df.columns THEN Returned(Q(1, 100))
    ELSE IF df.rows = << >> THEN Returned(Q(1, 100))
    ELSE Returned(PercentOfRoot(VarianceOfChanges(df.rows, period)))

MaxIndicatorBars == 3

IndicatorPeriods == {2, 14}

IndicatorCandles ==
    { Candle(QInt(100), QInt(105), QInt(100), QInt(100), 1000),
      Candle(QInt(100), QInt(210), QInt(99),  QInt(200), 4000),
      Candle(QInt(200), QInt(201), QInt(198), QInt(200), 500) }

IndicatorColumnSets ==
    { AllColumns, AllColumns \ {"volume"}, AllColumns \ {"close"},
      AllColumns \ {"high"}, AllColumns \ {"low"} }

TaResults == {LibraryRaises, None, NaN, QInt(55)}

InitIndicator ==
    /\ cash = QInt(STARTING_CAPITAL)
    /\ positions = << >>
    /\ trailing_stops = << >>
    /\ daily_pl = QInt(0)
    /\ starting_day_value = QInt(STARTING_CAPITAL)
    /\ ledger = << >>
    /\ pc = "idle"
    /\ \E columns \in IndicatorColumnSets :
          call = [op |-> "get_bars",
                  df |-> [columns |-> columns, rows |-> << >>]]

GetIndicatorBars ==
    /\ call.op = "get_bars"
    /\ Len(call.df.rows) < MaxIndicatorBars
    /\ \E candle \in IndicatorCandles :
          call' = [op |-> "get_bars",
                   df |-> [call.df EXCEPT !.rows = Append(@, candle)]]
    /\ UNCHANGED <<State, pc>>

CalculateRsi ==
    /\ call.op = "get_bars"
    /\ \E period \in IndicatorPeriods, ta_rsi \in TaResults :
          call' = [op |-> "calculate_rsi", df |-> call.df, period |-> period,
                   ta |-> ta_rsi,
                   ret |-> IndicatorRsi(call.df, period, ta_rsi)]
    /\ UNCHANGED <<State, pc>>

CalculateAtr ==
    /\ call.op = "get_bars"
    /\ \E period \in IndicatorPeriods, ta_atr \in TaResults :
          call' = [op |-> "calculate_atr", df |-> call.df, period |-> period,
                   ta |-> ta_atr,
                   ret |-> IndicatorAtr(call.df, period, ta_atr)]
    /\ UNCHANGED <<State, pc>>

CalculateAverageVolume ==
    /\ call.op = "get_bars"
    /\ \E period \in IndicatorPeriods :
          call' = [op |-> "calculate_average_volume", df |-> call.df,
                   period |-> period, ta |-> None,
                   ret |-> IndicatorAverageVolume(call.df, period)]
    /\ UNCHANGED <<State, pc>>

CalculateVolatility ==
    /\ call.op = "get_bars"
    /\ \E period \in IndicatorPeriods :
          call' = [op |-> "calculate_volatility", df |-> call.df,
                   period |-> period, ta |-> None,
                   ret |-> IndicatorVolatility(call.df, period)]
    /\ UNCHANGED <<State, pc>>

NextIndicator ==
    \/ GetIndicatorBars
    \/ CalculateRsi
    \/ CalculateAtr
    \/ CalculateAverageVolume
    \/ CalculateVolatility

SpecIndicator == InitIndicator /\ [][NextIndicator]_vars

---------------------------------------------------------------------------
(* Properties of the indicator functions under SpecIndicator.              *)

Calculated ==
    call.op \in {"calculate_rsi", "calculate_atr",
                 "calculate_average_volume", "calculate_volatility"}

(* The columns the primary computation of the called indicator reads.      *)
ColumnsRead ==
    IF call.op = "calculate_atr" THEN {"high", "low", "close"}
    ELSE IF call.op = "calculate_average_volume" THEN {"volume"}
    ELSE {"close"}

(* The primary computation failed: a column is missing, the bars are fewer *)
(* than the period, or the library raised.                                 *)
PrimaryFailed ==
    \/ ~ (ColumnsRead \subseteq call.df.columns)
    \/ Len(call.df.rows) < call.period
    \/ call.ta = LibraryRaises

(* The stated default of the called indicator for its frame.               *)
StatedDefault ==
    IF call.op = "calculate_rsi" THEN QInt(50)
    ELSE IF call.op = "calculate_volatility" THEN Q(1, 100)
    ELSE IF call.op = "calculate_atr"
    THEN IF {"high", "low"} \subseteq call.df.columns
         THEN MeanRange(call.df, call.period) ELSE NaN
    ELSE IF "volume" \in call.df.columns /\ call.df.rows # << >>
         THEN QDiv(WindowSum(call.df.rows, "volume", 1, Len(call.df.rows)),
                   QInt(Len(call.df.rows)))
         ELSE NaN

(* C25: no indicator function raises to its caller, and whenever its       *)
(* primary computation fails (missing column, too few bars) it returns its *)
(* stated default.                                                         *)
IndicatorsReturnDefaults ==
    Calculated =>
       /\ ~ call.ret.raised
       /\ PrimaryFailed => call.ret.value = StatedDefault

---------------------------------------------------------------------------
(* mean_reversion.py: detect_mean_reversion_opportunities, on the frames   *)
(* of the scorers.  df.ta_rsi is the rsi of the last row: Missing when the *)
(* column was not added, None or NaN when the library had too few rows.    *)

(* Mutant: the detector without its test of the RSI.                       *)
detect_mean_reversion_opportunities_on_band_alone(df, window, std_threshold) ==
    LET n == Len(df.rows)
    IN  IF n < window THEN <<FALSE, None, None>>
        ELSE IF "close" \notin df.columns THEN <<FALSE, None, None>>
        ELSE IF AtOrBelowLowerBand(df, window, std_threshold, n)
        THEN <<TRUE, df.rows[n].close, MiddleBand(df, window, n)>>
        ELSE <<FALSE, None, None>>

(* Reading latest['close'] without the column raises KeyError, and         *)
(* comparing a None rsi raises TypeError; the handler returns the same     *)
(* triple as a refusal.                                                    *)
detect_mean_reversion_opportunities(df, window, std_threshold) ==
    LET n   == Len(df.rows)
        rsi == IF df.ta_rsi = Missing THEN QInt(50) ELSE df.ta_rsi
    IN  IF n < window THEN <<FALSE, None, None>>
        ELSE IF "close" \notin df.columns THEN <<FALSE, None, None>>
        ELSE IF /\ AtOrBelowLowerBand(df, window, std_threshold, n)
                /\ rsi # None
                /\ Le(rsi, QInt(30))
        THEN <<TRUE, df.rows[n].close, MiddleBand(df, window, n)>>
        ELSE <<FALSE, None, None>>

DetectMeanReversionOpportunities ==
    /\ call.op = "get_bars"
    /\ \E window \in ScoreWindows, ta_rsi \in TaRsiValues :
          LET df == [call.df EXCEPT !.ta_rsi = ta_rsi]
          IN  call' = [op |-> "detect_mean_reversion_opportunities",
                       df |-> df, new |-> call.new, window |-> window,
                       ret |-> detect_mean_reversion_opportunities(
                                   df, window, QInt(2))]
    /\ UNCHANGED <<State, pc>>

NextReversion ==
    \/ GetCandles
    \/ DetectMeanReversionOpportunities

SpecReversion == InitScore /\ [][NextReversion]_vars

---------------------------------------------------------------------------
(* Properties of the mean-reversion detector under SpecReversion.          *)

(* The frame handed to the detector has at least window rows, its last     *)
(* close is at or below the lower band and its rsi is a number <= 30.      *)
Oversold ==
    /\ Len(call.df.rows) >= call.window
    /\ "close" \in call.df.columns
    /\ AtOrBelowLowerBand(call.df, call.window, QInt(2), Len(call.df.rows))
    /\ call.df.ta_rsi \notin {Missing, None, NaN}
    /\ QLe(call.df.ta_rsi, QInt(30))

(* C26: the detector returns (True, close, middle band) exactly when the   *)
(* frame has at least window rows, the last close is at or below the lower *)
(* band and the RSI is at most 30; otherwise it returns (False, None,      *)
(* None).                                                                  *)
OpportunityIffOversold ==
    call.op = "detect_mean_reversion_opportunities" =>
       LET n == Len(call.df.rows)
       IN  IF Oversold
           THEN call.ret = <<TRUE, call.df.rows[n].close,
                             RollingMean(call.df.rows, "close", call.window, n)>>
           ELSE call.ret = <<FALSE, None, None>>

(* The detector accepted a frame whose last close, 90, is under the lower  *)
(* band of its six rows.                                                   *)
OpportunityDetected ==
    /\ call.op = "detect_mean_reversion_opportunities"
    /\ call.ret[1]
    /\ call.ret[2] = QInt(90)
    /\ call.df.ta_rsi = QInt(30)

---------------------------------------------------------------------------
(* breakout.py: group_similar_levels.  call holds the list of levels and   *)
(* the threshold handed to it and the list it returned.                    *)

(* sorted(levels)                                                          *)
RECURSIVE InsertLevel(_, _)
InsertLevel(level, sorted) ==
    IF sorted = << >> THEN << level >>
    ELSE IF QLe(level, Head(sorted)) THEN << level >> \o sorted
    ELSE << Head(sorted) >> \o InsertLevel(level, Tail(sorted))

RECURSIVE SortLevels(_)
SortLevels(levels) ==
    IF levels = << >> THEN << >>
    ELSE InsertLevel(Head(levels), SortLevels(Tail(levels)))

QAbs(x) == IF QLt(x, QInt(0)) THEN QNeg(x) ELSE x

RECURSIVE SumLevels(_)
SumLevels(levels) ==
    IF levels = << >> THEN QInt(0)
    ELSE QAdd(Head(levels), SumLevels(Tail(levels)))

(* sum(current_group) / len(current_group)                                 *)
GroupMean(current_group) ==
    QDiv(SumLevels(current_group), QInt(Len(current_group)))

(* Mutant: a level is compared with the first level of the current group.  *)
RECURSIVE GroupLoopFromGroupStart(_, _, _, _, _)
GroupLoopFromGroupStart(sorted_levels, i, grouped_levels, current_group, threshold) ==
    IF i > Len(sorted_levels)
    THEN Append(grouped_levels, GroupMean(current_group))
    ELSE LET current_level == sorted_levels[i]
             prev_level    == current_group[1]
         IN  IF QLe(QDiv(QAbs(QSub(current_level, prev_level)), prev_level),
                    threshold)
             THEN GroupLoopFromGroupStart(sorted_levels, i + 1, grouped_levels,
                                Append(current_group, current_level), threshold)
             ELSE GroupLoopFromGroupStart(sorted_levels, i + 1,
                                Append(grouped_levels, GroupMean(current_group)),
                                << current_level >>, threshold)

(* Mutant: the list of the current group is not started afresh.            *)
RECURSIVE GroupLoopKeepingGroup(_, _, _, _, _)
GroupLoopKeepingGroup(sorted_levels, i, grouped_levels, current_group, threshold) ==
    IF i > Len(sorted_levels)
    THEN Append(grouped_levels, GroupMean(current_group))
    ELSE LET current_level == sorted_levels[i]
             prev_level    == current_group[Len(current_group)]
         IN  IF QLe(QDiv(QAbs(QSub(current_level, prev_level)), prev_level),
                    threshold)
             THEN GroupLoopKeepingGroup(sorted_levels, i + 1, grouped_levels,
                            Append(current_group, current_level), threshold)
             ELSE GroupLoopKeepingGroup(sorted_levels, i + 1,
                            Append(grouped_levels, GroupMean(current_group)),
                            Append(current_group, current_level), threshold)

(* The loop over range(1, len(sorted_levels)) (rows count from 1 here) and *)
(* the closing of the last group.                                          *)
RECURSIVE GroupLoop(_, _, _, _, _)
GroupLoop(sorted_levels, i, grouped_levels, current_group, threshold) ==
    IF i > Len(sorted_levels)
    THEN Append(grouped_levels, GroupMean(current_group))
    ELSE LET current_level == sorted_levels[i]
             prev_level    == current_group[Len(current_group)]
         IN  IF QLe(QDiv(QAbs(QSub(current_level, prev_level)), prev_level),
                    threshold)
             THEN GroupLoop(sorted_levels, i + 1, grouped_levels,
                            Append(current_group, current_level), threshold)
             ELSE GroupLoop(sorted_levels, i + 1,
                            Append(grouped_levels, GroupMean(current_group)),
                            << current_level >>, threshold)

group_similar_levels(levels, threshold) ==
    IF levels = << >> THEN << >>
    ELSE LET sorted_levels == SortLevels(levels)
         IN  GroupLoop(sorted_levels, 2, << >>, << sorted_levels[1] >>,
                       threshold)

MaxLevels == 4

LevelValues == {QInt(100), Q(201, 2), Q(503, 5), QInt(101), QInt(120)}

Thresholds == {QInt(0), Q(1, 100), Q(1, 200)}

InitLevels ==
    /\ cash = QInt(STARTING_CAPITAL)
    /\ positions = << >>
    /\ trailing_stops = << >>
    /\ daily_pl = QInt(0)
    /\ starting_day_value = QInt(STARTING_CAPITAL)
    /\ ledger = << >>
    /\ pc = "idle"
    /\ call = [op |-> "levels", levels |-> << >>]

(* find_support_resistance collects one more level.                        *)
AddLevel ==
    /\ call.op = "levels"
    /\ Len(call.levels) < MaxLevels
    /\ \E level \in LevelValues :
          call' = [op |-> "levels", levels |-> Append(call.levels, level)]
    /\ UNCHANGED <<State, pc>>

GroupSimilarLevels ==
    /\ call.op = "levels"
    /\ \E threshold \in Thresholds :
          call' = [op |-> "group_similar_levels", levels |-> call.levels,
                   threshold |-> threshold,
                   ret |-> group_similar_levels(call.levels, threshold)]
    /\ UNCHANGED <<State, pc>>

(* The list a call returned is handed to the function again.               *)
GroupSimilarLevelsAgain ==
    /\ call.op = "group_similar_levels"
    /\ call' = [op |-> "group_similar_levels_again", levels |-> call.ret,
                threshold |-> call.threshold,
                ret |-> group_similar_levels(call.ret, call.threshold)]
    /\ UNCHANGED <<State, pc>>

NextLevels ==
    \/ AddLevel
    \/ GroupSimilarLevels
    \/ GroupSimilarLevelsAgain

SpecLevels == InitLevels /\ [][NextLevels]_vars

---------------------------------------------------------------------------
(* Properties of group_similar_levels under SpecLevels.                    *)

(* The levels of the call in ascending order.                              *)
Ascending == SortLevels(call.levels)

(* The positions of Ascending where a new group starts: the distance to    *)
(* the level before, relative to that level, exceeds the threshold.        *)
GroupStarts ==
    {i \in 2..Len(Ascending) :
        QLt(call.threshold,
            QDiv(QSub(Ascending[i], Ascending[i - 1]), Ascending[i - 1]))}

(* The group of position i, counting groups from 1.                        *)
GroupOf(i) == 1 + Cardinality({b \in GroupStarts : b <= i})

RECURSIVE SumOfGroup(_, _)
SumOfGroup(k, i) ==
    IF i > Len(Ascending) THEN QInt(0)
    ELSE IF GroupOf(i) = k THEN QAdd(Ascending[i], SumOfGroup(k, i + 1))
    ELSE SumOfGroup(k, i + 1)

(* C27: the levels are sorted ascending and cut into consecutive groups, a *)
(* new one starting exactly where the relative distance to the previous    *)
(* sorted level exceeds the threshold; the result is the mean of each      *)
(* group, in ascending order, and the empty list for no levels.            *)
LevelsGroupedByPreviousLevel ==
    call.op = "group_similar_levels" =>
       /\ \A i \in 1..(Len(Ascending) - 1) : QLe(Ascending[i], Ascending[i + 1])
       /\ \A level \in LevelValues :
             Cardinality({i \in 1..Len(Ascending) : Ascending[i] = level})
                = Cardinality({i \in 1..Len(call.levels) : call.levels[i] = level})
       /\ Len(call.ret) = IF call.levels = << >> THEN 0
                          ELSE 1 + Cardinality(GroupStarts)
       /\ \A k \in 1..Len(call.ret) :
             QMul(call.ret[k],
                  QInt(Cardinality({i \in 1..Len(Ascending) : GroupOf(i) = k})))
                = SumOfGroup(k, 1)
       /\ \A k \in 1..(Len(call.ret) - 1) : QLe(call.ret[k], call.ret[k + 1])

(* The levels 120, 100.5, 100 and 100.6 at 1% gave 3011/30 and 120.        *)
LevelsOfScenarioGrouped ==
    /\ call.op = "group_similar_levels"
    /\ call.levels = << QInt(120), Q(201, 2), QInt(100), Q(503, 5) >>
    /\ call.threshold = Q(1, 100)
    /\ call.ret = << Q(3011, 30), QInt(120) >>

---------------------------------------------------------------------------
(* test_bot.py: the TradingBot of the test module, an object of its own.   *)
(* call.bot holds its fields capital, positions, trading_history and       *)
(* profit_loss, call.ret what execute_trade returned.  Timestamps are left *)
(* out of the records.                                                     *)

DEFAULT_CAPITAL == 100

TradingBot(initial_capital) ==
    [initial_capital |-> initial_capital, capital |-> initial_capital,
     positions |-> << >>, trading_history |-> << >>, profit_loss |-> QInt(0)]

(* Mutant: the loop matches a position whatever its status.                *)
MatchingPositionOfAnyStatus(bot, market_ticker, contract_ticker) ==
    LET matching == {i \in 1..Len(bot.positions) :
                        /\ bot.positions[i].market_ticker = market_ticker
                        /\ bot.positions[i].contract_ticker = contract_ticker}
    IN  IF matching = {} THEN 0
        ELSE CHOOSE i \in matching : \A j \in matching : i <= j

(* The first position of the list that is OPEN for the market and the      *)
(* contract; 0 when the loop finds none.                                   *)
MatchingPosition(bot, market_ticker, contract_ticker) ==
    LET matching == {i \in 1..Len(bot.positions) :
                        /\ bot.positions[i].market_ticker = market_ticker
                        /\ bot.positions[i].contract_ticker = contract_ticker
                        /\ bot.positions[i].status = "OPEN"}
    IN  IF matching = {} THEN 0
        ELSE CHOOSE i \in matching : \A j \in matching : i <= j

(* Mutant: the profit of a sale is counted on the quantity sold.           *)
execute_trade_counting_sold_quantity(bot, market_ticker, contract_ticker, action, price, quantity) ==
    LET cost == QMul(price, QInt(quantity))
        i    == MatchingPosition(bot, market_ticker, contract_ticker)
    IN  IF action = "BUY" /\ QLe(cost, bot.capital)
        THEN LET trade == [market_ticker |-> market_ticker,
                           contract_ticker |-> contract_ticker,
                           action |-> action, price |-> price,
                           quantity |-> quantity, cost |-> cost]
             IN  [bot |-> [bot EXCEPT
                      !.capital = QSub(@, cost),
                      !.positions = Append(@,
                          [market_ticker |-> market_ticker,
                           contract_ticker |-> contract_ticker,
                           action |-> action, entry_price |-> price,
                           quantity |-> quantity, status |-> "OPEN",
                           exit_price |-> None, profit_loss |-> None]),
                      !.trading_history = Append(@, trade)],
                  ret |-> trade]
        ELSE IF action = "SELL"
        THEN IF i = 0
             THEN [bot |-> bot,
                   ret |-> [error |-> "No matching position found to sell"]]
             ELSE LET position == bot.positions[i]
                      pl == IF position.action = "BUY"
                            THEN QMul(QSub(price, position.entry_price),
                                      QInt(quantity))
                            ELSE QMul(QSub(position.entry_price, price),
                                      QInt(quantity))
                      trade == [market_ticker |-> market_ticker,
                                contract_ticker |-> contract_ticker,
                                action |-> action, price |-> price,
                                quantity |-> quantity, proceeds |-> cost,
                                profit_loss |-> pl]
                  IN  [bot |-> [bot EXCEPT
                           !.positions[i].status = "CLOSED",
                           !.positions[i].exit_price = price,
                           !.positions[i].profit_loss = pl,
                           !.capital = QAdd(@, QAdd(cost, pl)),
                           !.profit_loss = QAdd(@, pl),
                           !.trading_history = Append(@, trade)],
                       ret |-> trade]
        ELSE [bot |-> bot,
              ret |-> [error |-> "Insufficient capital or invalid action"]]

(* Mutant: a refused call is entered in the trading history.               *)
RefusedAndRecorded(bot, message) ==
    [bot |-> [bot EXCEPT !.trading_history = Append(@, [error |-> message])],
     ret |-> [error |-> message]]

(* return {"error": ...}: the bot is left as it was.                       *)
Refused(bot, message) == [bot |-> bot, ret |-> [error |-> message]]

execute_trade(bot, market_ticker, contract_ticker, action, price, quantity) ==
    LET cost == QMul(price, QInt(quantity))
        i    == MatchingPosition(bot, market_ticker, contract_ticker)
    IN  IF action = "BUY" /\ QLe(cost, bot.capital)
        THEN LET trade == [market_ticker |-> market_ticker,
                           contract_ticker |-> contract_ticker,
                           action |-> action, price |-> price,
                           quantity |-> quantity, cost |-> cost]
             IN  [bot |-> [bot EXCEPT
                      !.capital = QSub(@, cost),
                      !.positions = Append(@,
                          [market_ticker |-> market_ticker,
                           contract_ticker |-> contract_ticker,
                           action |-> action, entry_price |-> price,
                           quantity |-> quantity, status |-> "OPEN",
                           exit_price |-> None, profit_loss |-> None]),
                      !.trading_history = Append(@, trade)],
                  ret |-> trade]
        ELSE IF action = "SELL"
        THEN IF i = 0
             THEN Refused(bot, "No matching position found to sell")
             ELSE LET position == bot.positions[i]
                      pl == IF position.action = "BUY"
                            THEN QMul(QSub(price, position.entry_price),
                                      QInt(position.quantity))
                            ELSE QMul(QSub(position.entry_price, price),
                                      QInt(position.quantity))
                      trade == [market_ticker |-> market_ticker,
                                contract_ticker |-> contract_ticker,
                                action |-> action, price |-> price,
                                quantity |-> quantity, proceeds |-> cost,
                                profit_loss |-> pl]
                  IN  [bot |-> [bot EXCEPT
                           !.positions[i].status = "CLOSED",
                           !.positions[i].exit_price = price,
                           !.positions[i].profit_loss = pl,
                           !.capital = QAdd(@, QAdd(cost, pl)),
                           !.profit_loss = QAdd(@, pl),
                           !.trading_history = Append(@, trade)],
                       ret |-> trade]
        ELSE Refused(bot, "Insufficient capital or invalid action")

MaxTrades == 3

MarketTickers == {"TEST-MKT1"}

ContractTickers == {"TEST-MKT1-YES", "TEST-MKT1-NO"}

TradeActions == {"BUY", "SELL", "HOLD"}

TradePrices == {Q(1, 2), Q(3, 4), QInt(8)}

TradeQuantities == {10, 20}

InitTestBot ==
    /\ cash = QInt(STARTING_CAPITAL)
    /\ positions = << >>
    /\ trailing_stops = << >>
    /\ daily_pl = QInt(0)
    /\ starting_day_value = QInt(STARTING_CAPITAL)
    /\ ledger = << >>
    /\ pc = "idle"
    /\ call = [op |-> "TradingBot", bot |-> TradingBot(QInt(DEFAULT_CAPITAL))]

ExecuteTrade ==
    /\ Len(call.bot.trading_history) < MaxTrades
    /\ \E market_ticker \in MarketTickers, contract_ticker \in ContractTickers,
          action \in TradeActions, price \in TradePrices,
          quantity \in TradeQuantities :
          LET done == execute_trade(call.bot, market_ticker, contract_ticker,
                                    action, price, quantity)
          IN  call' = [op |-> "execute_trade", bot |-> done.bot,
                       market_ticker |-> market_ticker,
                       contract_ticker |-> contract_ticker,
                       action |-> action, price |-> price,
                       quantity |-> quantity, ret |-> done.ret]
    /\ UNCHANGED <<State, pc>>

NextTestBot == ExecuteTrade

SpecTestBot == InitTestBot /\ [][NextTestBot]_vars

---------------------------------------------------------------------------
(* Properties of the test bot under SpecTestBot.                           *)

(* The call that led to the present state was a BUY that succeeded.        *)
BuySucceeded ==
    /\ call.op = "execute_trade"
    /\ call.action = "BUY"
    /\ "error" \notin DOMAIN call.ret

(* The step is a SELL of the market and contract just bought.              *)
SellOfTheSame ==
    /\ BuySucceeded
    /\ call'.action = "SELL"
    /\ call'.market_ticker = call.market_ticker
    /\ call'.contract_ticker = call.contract_ticker

(* C28: a SELL of the market and contract of the BUY that just succeeded   *)
(* returns a trade without error whose profit_loss is (sell price - entry  *)
(* price) * quantity of the position it closes, the first open one of that *)
(* market and contract; the bot's profit_loss grows by it and the position *)
(* is CLOSED.                                                              *)
SellAfterBuySucceeds ==
    [][SellOfTheSame =>
          LET i == MatchingPosition(call.bot, call'.market_ticker,
                                    call'.contract_ticker)
              position == call.bot.positions[i]
              pl == QMul(QSub(call'.price, position.entry_price),
                         QInt(position.quantity))
          IN  /\ i > 0
              /\ "error" \notin DOMAIN call'.ret
              /\ call'.ret.action = "SELL"
              /\ call'.ret.profit_loss = pl
              /\ call'.bot.profit_loss = QAdd(call.bot.profit_loss, pl)
              /\ call'.bot.positions[i].status = "CLOSED"
              /\ Len(call'.bot.trading_history)
                    = Len(call.bot.trading_history) + 1]_vars

(* The trades of test_trading_execution: 20 bought at 0.50 and sold at     *)
(* 0.75 for a profit of 5.                                                 *)
TestTradesDone ==
    /\ call.op = "execute_trade"
    /\ call.action = "SELL"
    /\ call.price = Q(3, 4)
    /\ Len(call.bot.positions) = 1
    /\ call.bot.positions[1].status = "CLOSED"
    /\ call.bot.positions[1].entry_price = Q(1, 2)
    /\ call.bot.positions[1].quantity = 20
    /\ call.ret.profit_loss = QInt(5)
    /\ call.bot.profit_loss = QInt(5)

---------------------------------------------------------------------------
(* Trailing stops and strategy tags under Spec.                            *)

(* C31: a symbol has an entry in trailing_stops exactly when its open      *)
(* position carries the tag breakout, also after a second buy of the       *)
(* symbol under another strategy.                                          *)
TrailingStopIffBreakout ==
    \A symbol \in Symbols :
       (symbol \in DOMAIN trailing_stops)
          <=> /\ HasPosition(positions, symbol)
              /\ PositionOf(positions, symbol).strategy = "breakout"

---------------------------------------------------------------------------
(* The books of the test bot under SpecTestBot.                            *)

OpenPositions ==
    {i \in 1..Len(call.bot.positions) : call.bot.positions[i].status = "OPEN"}

(* C32: whenever no position of the test bot is OPEN, its capital equals   *)
(* initial_capital plus the accumulated profit_loss.                       *)
BooksBalanceWhenFlat ==
    OpenPositions = {} =>
       call.bot.capital = QAdd(call.bot.initial_capital, call.bot.profit_loss)

---------------------------------------------------------------------------
(* The risk amounts of the three strategy runs as functions of cash.  call *)
(* holds the cash the run finds and the amount it hands to execute_buy.    *)
(* STRATEGIES is the module's switchboard: a run computes its amount when  *)
(* its entry is set, and the entry of mean_reversion is the one the file   *)
(* says to set after the challenge period.                                 *)

(* risk_amount of run_mean_reversion_strategy.                             *)
MeanReversionRisk(s) ==
    QMin(QMax(QInt(100), QMul(s.cash, Q(2, 10))),
         QMin(QInt(500), QMul(s.cash, Q(5, 10))))

MaxCash == 250

InitRisk ==
    /\ cash = QInt(STARTING_CAPITAL)
    /\ positions = << >>
    /\ trailing_stops = << >>
    /\ daily_pl = QInt(0)
    /\ starting_day_value = QInt(STARTING_CAPITAL)
    /\ ledger = << >>
    /\ pc = "idle"
    /\ \E dollars \in 0..MaxCash : call = [op |-> "cash", cash |-> QInt(dollars)]

SentimentRiskAmount ==
    /\ call.op = "cash"
    /\ call' = [op |-> "run_sentiment_strategy", cash |-> call.cash,
                risk_amount |-> RiskAmount([cash |-> call.cash])]
    /\ UNCHANGED <<State, pc>>

BreakoutRiskAmount ==
    /\ call.op = "cash"
    /\ call' = [op |-> "run_breakout_strategy", cash |-> call.cash,
                risk_amount |-> RiskAmount([cash |-> call.cash])]
    /\ UNCHANGED <<State, pc>>

MeanReversionRiskAmount ==
    /\ call.op = "cash"
    /\ call' = [op |-> "run_mean_reversion_strategy", cash |-> call.cash,
                risk_amount |-> MeanReversionRisk([cash |-> call.cash])]
    /\ UNCHANGED <<State, pc>>

NextRisk ==
    \/ SentimentRiskAmount
    \/ BreakoutRiskAmount
    \/ MeanReversionRiskAmount

SpecRisk == InitRisk /\ [][NextRisk]_vars

---------------------------------------------------------------------------
(* Properties of the risk amounts under SpecRisk.                          *)

(* C33: the risk amount of the sentiment and breakout runs lies between 20 *)
(* and 50 for every value of cash.                                         *)
RiskBetweenTwentyAndFifty ==
    call.op \in {"run_sentiment_strategy", "run_breakout_strategy"} =>
       /\ QLe(QInt(20), call.risk_amount)
       /\ QLe(call.risk_amount, QInt(50))

(* C34: the risk amount of each of the three runs is at most               *)
(* MAX_RISK_PER_TRADE and at most cash, so neither test of execute_buy     *)
(* refuses it.                                                             *)
RiskWithinCeilingAndCash ==
    call.op # "cash" =>
       /\ QLe(call.risk_amount, QInt(MAX_RISK_PER_TRADE))
       /\ QLe(call.risk_amount, call.cash)

---------------------------------------------------------------------------
(* Closing a position once, under SpecCycle.                               *)

MaintenanceOps ==
    {"check_stop_losses", "check_take_profits",
     "close_all_positions_at_market_close"}

IsSellOf(record, symbol) ==
    record.action[1] = "SELL" /\ record.symbol = symbol

(* Between any two SELL records of a symbol the ledger has a BUY record of *)
(* that symbol.                                                            *)
BuyBetweenSells ==
    \A symbol \in Symbols :
       \A i, j \in 1..Len(ledger) :
          (i < j /\ IsSellOf(ledger[i], symbol) /\ IsSellOf(ledger[j], symbol))
             => \E k \in (i + 1)..(j - 1) :
                   ledger[k].action = <<"BUY">> /\ ledger[k].symbol = symbol

(* The records a step appends to the ledger.                               *)
Appended == SubSeq(ledger', Len(ledger) + 1, Len(ledger'))

(* C35: a position is closed at most once.  The ledger never has two SELL  *)
(* records of a symbol without a BUY of it between them; a maintenance     *)
(* cycle sends sell orders only for symbols that hold a position, records  *)
(* at most one sale per symbol, and a symbol it sold is no longer held.    *)
PositionClosedAtMostOnce ==
    /\ []BuyBetweenSells
    /\ [][call'.op \in MaintenanceOps =>
             /\ call'.sent \subseteq Held
             /\ \A n \in 1..Len(Appended) :
                   /\ Appended[n].action[1] = "SELL"
                   /\ Appended[n].symbol \in Held
                   /\ ~HasPosition(positions', Appended[n].symbol)
                   /\ \A m \in 1..Len(Appended) :
                         Appended[m].symbol = Appended[n].symbol => m = n]_vars

(* Two positions closed by two cycles: one at its stop loss, the other at  *)
(* the market close that followed.                                         *)
ClosedByTwoCycles ==
    /\ Len(ledger) = 4
    /\ ledger[3].action = <<"SELL", "stop_loss">>
    /\ ledger[4].action = <<"SELL", "market_close">>
    /\ ledger[3].symbol # ledger[4].symbol
    /\ positions = << >>
    /\ call.op = "close_all_positions_at_market_close"

---------------------------------------------------------------------------
(* The life of a test-bot position under SpecTestBot.                      *)

(* The positions a step of the test bot changed.                           *)
ChangedPositions ==
    {i \in 1..Len(call.bot.positions) :
        call'.bot.positions[i] # call.bot.positions[i]}

(* C36: CLOSED is terminal in the test bot.  Positions are never removed,  *)
(* a position that changes was OPEN and becomes CLOSED, and a SELL that    *)
(* succeeds changes exactly one position, the earliest OPEN one of its     *)
(* market and contract.                                                    *)
ClosedIsTerminal ==
    [][/\ Len(call'.bot.positions) >= Len(call.bot.positions)
       /\ \A i \in ChangedPositions :
             /\ call.bot.positions[i].status = "OPEN"
             /\ call'.bot.positions[i].status = "CLOSED"
       /\ (call'.action = "SELL" /\ "error" \notin DOMAIN call'.ret) =>
             /\ ChangedPositions =
                   {MatchingPosition(call.bot, call'.market_ticker,
                                     call'.contract_ticker)}
             /\ \A j \in 1..Len(call.bot.positions) :
                   (/\ call.bot.positions[j].market_ticker = call'.market_ticker
                    /\ call.bot.positions[j].contract_ticker
                          = call'.contract_ticker
                    /\ call.bot.positions[j].status = "OPEN")
                      => \E i \in ChangedPositions : i <= j
             /\ Len(call'.bot.positions) = Len(call.bot.positions)]_vars

(* A SELL met only a CLOSED position of its market and contract: it was   *)
(* refused and the position kept the exit price of its own sale.           *)
ClosedPositionNotMatched ==
    /\ call.op = "execute_trade"
    /\ call.action = "SELL"
    /\ "error" \in DOMAIN call.ret
    /\ Len(call.bot.positions) = 1
    /\ call.bot.positions[1].status = "CLOSED"
    /\ call.bot.positions[1].contract_ticker = call.contract_ticker
    /\ call.bot.positions[1].exit_price # call.price

---------------------------------------------------------------------------
(* The capital of the test bot under SpecTestBot, whose prices and         *)
(* quantities are positive and whose initial capital is 100.               *)

(* C37: the capital of the test bot is never negative.                     *)
CapitalNeverNegative == QLe(QInt(0), call.bot.capital)

---------------------------------------------------------------------------
(* Refused trades of the test bot under SpecTestBot.                       *)

(* The call of the step is one the test bot must refuse: a BUY that costs  *)
(* more than the capital, a SELL without an OPEN position of its market    *)
(* and contract, or an action that is neither.                             *)
MustBeRefused ==
    \/ /\ call'.action = "BUY"
       /\ QLt(call.bot.capital, QMul(call'.price, QInt(call'.quantity)))
    \/ /\ call'.action = "SELL"
       /\ \A i \in 1..Len(call.bot.positions) :
             ~ /\ call.bot.positions[i].market_ticker = call'.market_ticker
               /\ call.bot.positions[i].contract_ticker = call'.contract_ticker
               /\ call.bot.positions[i].status = "OPEN"
    \/ call'.action \notin {"BUY", "SELL"}

(* C38: a trade the test bot must refuse returns a record with an error,   *)
(* and a call that returns an error leaves capital, positions,             *)
(* trading_history and profit_loss as they were.                           *)
FailedTradesChangeNothing ==
    [][/\ MustBeRefused => "error" \in DOMAIN call'.ret
       /\ "error" \in DOMAIN call'.ret => call'.bot = call.bot]_vars

(* A BUY of 20 at 8 was refused with capital 100 and nothing held.         *)
BuyRefusedForCapital ==
    /\ call.op = "execute_trade"
    /\ call.action = "BUY"
    /\ call.price = QInt(8)
    /\ call.quantity = 20
    /\ "error" \in DOMAIN call.ret
    /\ call.bot = TradingBot(QInt(DEFAULT_CAPITAL))

---------------------------------------------------------------------------
(* Grouping the grouped levels, under SpecLevels.                          *)

(* C39: group_similar_levels applied to its own output returns it          *)
(* unchanged: consecutive levels of the output lie farther apart than the  *)
(* threshold, relative to the lower one.                                   *)
GroupingIsIdempotent ==
    call.op = "group_similar_levels_again" =>
       /\ call.ret = call.levels
       /\ \A k \in 1..(Len(call.levels) - 1) :
             QLt(QMul(call.threshold, call.levels[k]),
                 QSub(call.levels[k + 1], call.levels[k]))

(* The two levels that 100, 100.5, 100.6 and 120 gave at 1% were grouped   *)
(* again and came back.                                                    *)
ScenarioGroupedAgain ==
    /\ call.op = "group_similar_levels_again"
    /\ call.threshold = Q(1, 100)
    /\ call.levels = << Q(3011, 30), QInt(120) >>
    /\ call.ret = << Q(3011, 30), QInt(120) >>

---------------------------------------------------------------------------
(* breakout.py, find_support_resistance: local minimums of the lows and    *)
(* local maximums of the highs, grouped.  Rows are counted from 0 as in    *)
(* the source; Row(df, i) is df.iloc[i].                                   *)

Row(df, i) == df[i + 1]

(* Mutant: only the bars before row i are looked at.                       *)
IsLocalMinimumOfPrecedingBars(df, i, window) ==
    \A j \in (i - window)..(i - 1) : QLe(Row(df, i).low, Row(df, j).low)

(* all(low[i] <= low[i-window:i]) and all(low[i] <= low[i+1:i+window+1])   *)
IsLocalMinimum(df, i, window) ==
    /\ \A j \in (i - window)..(i - 1) : QLe(Row(df, i).low, Row(df, j).low)
    /\ \A j \in (i + 1)..(i + window) : QLe(Row(df, i).low, Row(df, j).low)

(* all(high[i] >= high[i-window:i]) and all(high[i] >= high[i+1:i+window+1]) *)
IsLocalMaximum(df, i, window) ==
    /\ \A j \in (i - window)..(i - 1) : QLe(Row(df, j).high, Row(df, i).high)
    /\ \A j \in (i + 1)..(i + window) : QLe(Row(df, j).high, Row(df, i).high)

(* for i in range(window, len(df) - window): the two lists of candidates.  *)
RECURSIVE CandidateLoop(_, _, _, _, _)
CandidateLoop(df, i, window, support_levels, resistance_levels) ==
    IF i >= Len(df) - window
    THEN [support_levels |-> support_levels,
          resistance_levels |-> resistance_levels]
    ELSE CandidateLoop(df, i + 1, window,
            IF IsLocalMinimum(df, i, window)
            THEN Append(support_levels, Row(df, i).low)
            ELSE support_levels,
            IF IsLocalMaximum(df, i, window)
            THEN Append(resistance_levels, Row(df, i).high)
            ELSE resistance_levels)

(* find_support_resistance(df, window).  has_columns tells whether the     *)
(* frame carries 'low' and 'high'; reading a missing column raises inside  *)
(* the try and the handler returns [], [].  The candidates the loop found  *)
(* are kept beside the returned pair.                                      *)
find_support_resistance(df, has_columns, window) ==
    IF Len(df) < window * 2
    THEN [candidates |-> CandidateLoop(df, Len(df), window, << >>, << >>),
          ret |-> << << >>, << >> >>]
    ELSE IF ~has_columns /\ window < Len(df) - window
    THEN [candidates |-> Missing, ret |-> << << >>, << >> >>]
    ELSE LET found == CandidateLoop(df, window, window, << >>, << >>)
         IN  [candidates |-> found,
              ret |-> << group_similar_levels(found.support_levels, Q(1, 100)),
                         group_similar_levels(found.resistance_levels, Q(1, 100)) >>]

MaxSwingBars == 5

SwingBars ==
    { [low |-> QInt(100), high |-> QInt(102)],
      [low |-> QInt(99),  high |-> QInt(101)],
      [low |-> QInt(98),  high |-> QInt(103)] }

SwingWindows == {1, 2}

InitSwing ==
    /\ cash = QInt(STARTING_CAPITAL)
    /\ positions = << >>
    /\ trailing_stops = << >>
    /\ daily_pl = QInt(0)
    /\ starting_day_value = QInt(STARTING_CAPITAL)
    /\ ledger = << >>
    /\ pc = "idle"
    /\ call = [op |-> "bars", df |-> << >>]

AddSwingBar ==
    /\ call.op = "bars"
    /\ Len(call.df) < MaxSwingBars
    /\ \E bar \in SwingBars : call' = [op |-> "bars", df |-> Append(call.df, bar)]
    /\ UNCHANGED <<State, pc>>

FindSupportResistance ==
    /\ call.op = "bars"
    /\ \E window \in SwingWindows, has_columns \in BOOLEAN :
          LET result == find_support_resistance(call.df, has_columns, window)
          IN  call' = [op |-> "find_support_resistance", df |-> call.df,
                       has_columns |-> has_columns, window |-> window,
                       candidates |-> result.candidates, ret |-> result.ret]
    /\ UNCHANGED <<State, pc>>

NextSwing ==
    \/ AddSwingBar
    \/ FindSupportResistance

SpecSwing == InitSwing /\ [][NextSwing]_vars

(* The rows of the frame that have window rows on either side.             *)
InteriorRows(df, window) ==
    { i \in 0..(Len(df) - 1) : window <= i /\ i < Len(df) - window }

(* The rows within window of row i, row i left out.                        *)
Neighbours(df, i, window) ==
    { j \in 0..(Len(df) - 1) : j # i /\ j >= i - window /\ j <= i + window }

SupportRows(df, window) ==
    { i \in InteriorRows(df, window) :
         \A j \in Neighbours(df, i, window) : QLe(Row(df, i).low, Row(df, j).low) }

ResistanceRows(df, window) ==
    { i \in InteriorRows(df, window) :
         \A j \in Neighbours(df, i, window) : QLe(Row(df, j).high, Row(df, i).high) }

(* The rows of a set in ascending order.                                   *)
InOrder(rows) ==
    CHOOSE seq \in [1..Cardinality(rows) -> rows] :
       \A a, b \in 1..Cardinality(rows) : a < b => seq[a] < seq[b]

(* C40: the support candidates are the lows of exactly the interior rows   *)
(* whose low is <= every low within window rows on either side, the        *)
(* resistance candidates the highs of exactly the interior rows whose high *)
(* is >= every high there; fewer than 2 * window bars give two empty lists.*)
CandidatesAreInteriorExtremes ==
    (call.op = "find_support_resistance" /\ call.has_columns) =>
       LET supports    == InOrder(SupportRows(call.df, call.window))
           resistances == InOrder(ResistanceRows(call.df, call.window))
       IN  /\ call.candidates.support_levels =
                 [k \in 1..Len(supports) |-> Row(call.df, supports[k]).low]
           /\ call.candidates.resistance_levels =
                 [k \in 1..Len(resistances) |-> Row(call.df, resistances[k]).high]
           /\ Len(call.df) < 2 * call.window => call.ret = << << >>, << >> >>

(* Five bars at window 1: the low of 98 in the middle is the one support   *)
(* candidate, the tied lows of 100 on the edges are not looked at.         *)
SupportFoundInTheMiddle ==
    /\ call.op = "find_support_resistance"
    /\ call.has_columns
    /\ call.window = 1
    /\ Len(call.df) = 5
    /\ call.df[1].low = QInt(100)
    /\ call.df[5].low = QInt(100)
    /\ call.candidates.support_levels = << QInt(98) >>
    /\ call.ret[1] = << QInt(98) >>

=============================================================================
